---- MODULE Spec2Model ----
(***************************************************************************)
(* State-machine model of the resume analysis back end:                    *)
(*   - AdvancedATSAnalyzer (services/advancedATSAnalyzer.js): the cached,  *)
(*     AI-backed analysis, with its heuristic scorers;                     *)
(*   - the POST /analyze-ats handler of routes/resumeRoutes (server.js);   *)
(*   - PDFTextExtractor.analyzeResumeText (services/pdfTextExtractor.js).  *)
(*                                                                         *)
(* Strings are sequences of tokens: a token is a whole word, a punctuation *)
(* mark or a white-space character, so that splitting, trimming,           *)
(* normalising and concatenating are computed as the code computes them.   *)
(* JavaScript values are tagged records; objects live in a heap, so that   *)
(* sharing a reference and copying an object are different things.         *)
(***************************************************************************)
EXTENDS Integers, Sequences, FiniteSets, TLC

\* ------------------------------------------------------------------ bounds
\* number of concurrent POST /analyze-ats requests
NumReq == 2
\* number of mutations a caller performs on returned analysis objects
MaxMut == 1
\* longest reply text of the generative-text collaborator, in tokens
MaxReplyLen == 3
\* longest resume text / job description handed to buildCacheKey, in tokens
MaxKeyLen == 2

Reqs == 1..NumReq

\* ------------------------------------------------------------------ strings
RECURSIVE Concat(_)
\* concatenation of a sequence of strings
Concat(ss) == IF ss = <<>> THEN <<>> ELSE Head(ss) \o Concat(Tail(ss))

\* the white-space class \s of the regular expressions
IsWS(tok) == tok \in {" ", "\n"}

RECURSIVE TrimStart(_)
TrimStart(s) == IF s # <<>> /\ IsWS(Head(s)) THEN TrimStart(Tail(s)) ELSE s

RECURSIVE TrimEnd(_)
TrimEnd(s) ==
  IF s # <<>> /\ IsWS(s[Len(s)]) THEN TrimEnd(SubSeq(s, 1, Len(s) - 1)) ELSE s

\* String.prototype.trim
Trim(s) == TrimEnd(TrimStart(s))

RECURSIVE CollapseWS(_)
\* s.replace(/\s+/g, ' '): every maximal run of white space becomes one blank
CollapseWS(s) ==
  IF s = <<>> THEN <<>>
  ELSE IF IsWS(Head(s)) THEN <<" ">> \o CollapseWS(TrimStart(Tail(s)))
  ELSE <<Head(s)>> \o CollapseWS(Tail(s))

\* (x || '').replace(/\s+/g, ' ').trim()
Normalize(s) == Trim(CollapseWS(s))

\* the string fed to the SHA-256 hash, update by update
HashInput(text, analysisMode, jobDescription) ==
  Normalize(text) \o <<"|">> \o <<analysisMode>> \o <<"|">> \o Normalize(jobDescription)

\* crypto.createHash('sha256')...digest('hex'): taken as injective, a digest is
\* identified with the byte string it was computed from
Sha256Hex(bytes) == bytes

buildCacheKey(text, analysisMode, jobDescription) ==
  Sha256Hex(HashInput(text, analysisMode, jobDescription))

\* ------------------------------------------------------------------ values
\* JavaScript values
Undefined == [t |-> "undefined"]
Null == [t |-> "null"]
Num(n) == [t |-> "number", n |-> n]
Str(s) == [t |-> "string", s |-> s]
\* a reference to the heap object id
Ref(id) == [t |-> "object", id |-> id]

IsRef(v) == v.t = "object"

\* ToBoolean, as used by  a || b
Truthy(v) ==
  CASE v.t = "undefined" -> FALSE
    [] v.t = "null" -> FALSE
    [] v.t = "number" -> v.n # 0
    [] v.t = "string" -> v.s # ""
    [] OTHER -> TRUE

\* obj.f of a parsed object: undefined when the property is missing
Get(obj, f) == IF f \in DOMAIN obj THEN obj[f] ELSE Undefined

\* the function f restricted to the set S
Restrict(f, S) == [x \in S |-> f[x]]

\* ------------------------------------------------------------------ heap
\* An analysis is one top-level object whose properties are JavaScript values;
\* a property holding an object refers to a nested heap object.  The id of an
\* object names the request that allocated it, the allocation ("ret": the
\* analysis the call returns, "stored": the copy handed to the cache) and the
\* property path from the top-level object ("top" for the object itself).
ObjId(r, role, part) == <<r, role, part>>

\* JSON.stringify drops every property whose value is undefined
JsonFields(obj) == {f \in DOMAIN obj : obj[f].t # "undefined"}

\* JSON.parse(JSON.stringify(h[src])) allocated by request r as `role`:
\* the new objects, as a heap fragment.  Nested objects are copied too.
JsonCopy_Shallow(h, src, r, role) ==
  ObjId(r, role, "top") :> Restrict(h[src], JsonFields(h[src]))

JsonCopy(h, src, r, role) ==
  LET top == h[src]
      kept == JsonFields(top)
      nested == {f \in kept : IsRef(top[f])}
  IN  (ObjId(r, role, "top") :>
         [f \in kept |-> IF f \in nested THEN Ref(ObjId(r, role, f)) ELSE top[f]])
      @@ [id \in {ObjId(r, role, f) : f \in nested} |-> h[top[id[3]].id]]

\* what an observer reads through the reference id: the properties of the
\* object with every nested object replaced by its content
DeepVal(h, id) ==
  [f \in DOMAIN h[id] |->
     IF IsRef(h[id][f]) THEN <<"object", h[h[id][f].id]>> ELSE <<"value", h[id][f]>>]

\* ------------------------------------------------------------------ AI reply
\* Tokens of a reply text: braces, prose, and JSON members (a member token is a
\* complete  "key": value  pair).
MemberTokens == {"s1", "jm"}
ReplyAlphabet == {"{", "}", "p"} \cup MemberTokens

RECURSIVE SeqsUpTo(_, _)
\* all sequences over S of length at most n
SeqsUpTo(S, n) ==
  IF n = 0 THEN {<<>>}
  ELSE LET shorter == SeqsUpTo(S, n - 1)
       IN  shorter \cup {Append(s, x) : s \in {q \in shorter : Len(q) = n - 1}, x \in S}

ReplyTexts == SeqsUpTo(ReplyAlphabet, MaxReplyLen)

\* what AIService.generateContent resolves to
AIResults ==
  {[success |-> FALSE, text |-> <<>>]} \cup {[success |-> TRUE, text |-> x] : x \in ReplyTexts}

\* analysisText.match(/\{[\s\S]*\}/): from the first "{" to the last "}"
JsonMatch(text) ==
  LET opens == {i \in 1..Len(text) : text[i] = "{"}
      closes == {i \in 1..Len(text) : text[i] = "}"}
  IN  IF opens = {} \/ closes = {} THEN <<>>
      ELSE LET i == CHOOSE x \in opens : \A y \in opens : x <= y
               j == CHOOSE x \in closes : \A y \in closes : y <= x
           IN  IF i < j THEN SubSeq(text, i, j) ELSE <<>>

\* JSON.parse accepts the text: an object whose content is members only
JsonValid(s) ==
  /\ Len(s) >= 2
  /\ s[1] = "{"
  /\ s[Len(s)] = "}"
  /\ \A i \in 2..(Len(s) - 1) : s[i] \in MemberTokens

\* the property a member token sets, and its value (a nested object is given
\* by its content)
MemberKey(tok) == IF tok = "s1" THEN "atsScore" ELSE "jobMatch"
MemberIsObject(tok) == tok = "jm"
MemberValue(tok) ==
  IF tok = "s1" THEN Num(85)
  ELSE [keywordMatch |-> 77, skillsMatch |-> 77, experienceMatch |-> 77, overallMatch |-> 77]

\* JSON.parse of an accepted text: property -> member token (a repeated key
\* keeps its last value)
JsonParse(s) ==
  LET inner == SubSeq(s, 2, Len(s) - 1)
      keys == {MemberKey(inner[i]) : i \in 1..Len(inner)}
  IN  [k \in keys |->
         inner[CHOOSE i \in 1..Len(inner) :
                 /\ MemberKey(inner[i]) = k
                 /\ \A j \in 1..Len(inner) : MemberKey(inner[j]) = k => j <= i]]

\* performAIAnalysis once generateContent has resolved: the parsed reply, or
\* the error it throws
AIOutcome(result) ==
  IF ~result.success
    THEN [ok |-> FALSE, error |-> "AI analysis failed: AI proxy returned an error"]
  ELSE IF JsonMatch(result.text) # <<>> /\ JsonValid(JsonMatch(result.text))
    THEN [ok |-> TRUE, parsed |-> JsonParse(JsonMatch(result.text))]
  ELSE [ok |-> FALSE, error |-> "AI analysis failed: Failed to parse AI response"]

\* the outcomes of performAIAnalysis over all replies of the collaborator
AIOutcomes == {AIOutcome(result) : result \in AIResults}

\* ------------------------------------------------------------------ text
\* String.prototype.toLowerCase, token by token
ToLowerTok(tok) ==
  CASE tok = "Summary" -> "summary"
    [] tok = "Experience" -> "experience"
    [] tok = "Skills" -> "skills"
    [] tok = "Education" -> "education"
    [] tok = "Senior" -> "senior"
    [] tok = "Developer" -> "developer"
    [] tok = "Acme" -> "acme"
    [] tok = "Inc" -> "inc"
    [] tok = "Bachelor" -> "bachelor"
    [] tok = "State" -> "state"
    [] tok = "University" -> "university"
    [] tok = "Projects" -> "projects"
    [] OTHER -> tok

toLowerCase(s) == [i \in DOMAIN s |-> ToLowerTok(s[i])]

\* number of characters of a token
TokLen(tok) ==
  CASE tok \in {" ", "\n", ":", ",", ".", "-", "|", "3", "5"} -> 1
    [] tok = "of" -> 2
    [] tok = "sql" -> 3
    [] tok \in {"2019", "2022"} -> 4
    [] tok = "years" -> 5
    [] tok \in {"skills", "Skills", "python", "docker"} -> 6
    [] tok \in {"summary", "Summary"} -> 7
    [] tok \in {"experience", "Experience", "john@x.com"} -> 10
    [] tok = "555-123-4567" -> 12
    [] tok = "prose" -> 60
    [] OTHER -> 4

\* number of matches of /[a-zA-Z]+/g inside a token ("prose" stands for a
\* sentence of twelve words)
TokAlphaRuns(tok) ==
  CASE tok \in {" ", "\n", ":", ",", ".", "-", "|", "3", "5", "2019", "2022", "555-123-4567"} -> 0
    [] tok = "john@x.com" -> 3
    [] tok = "prose" -> 12
    [] OTHER -> 1

\* number of matches of /\d{4}/g inside a token
TokYearRuns(tok) == IF tok \in {"2019", "2022", "555-123-4567"} THEN 1 ELSE 0

\* the decimal value of a token made of digits, -1 for any other token
TokNumber(tok) ==
  CASE tok = "3" -> 3
    [] tok = "5" -> 5
    [] tok = "2019" -> 2019
    [] tok = "2022" -> 2022
    [] OTHER -> -1

RECURSIVE CharLen(_)
\* s.length in characters
CharLen(s) == IF s = <<>> THEN 0 ELSE TokLen(Head(s)) + CharLen(Tail(s))

RECURSIVE CountAlphaRuns(_)
\* (s.match(/[a-zA-Z]+/g) || []).length, words being separated by other tokens
CountAlphaRuns(s) == IF s = <<>> THEN 0 ELSE TokAlphaRuns(Head(s)) + CountAlphaRuns(Tail(s))

RECURSIVE CountYearRuns(_)
\* (s.match(/\d{4}/g) || []).length
CountYearRuns(s) == IF s = <<>> THEN 0 ELSE TokYearRuns(Head(s)) + CountYearRuns(Tail(s))

\* the pairs of distinct words of the vocabulary of which the first contains
\* the second
ProperSubstrings ==
  {<<"javascript", "java">>, <<"skills", "skill">>, <<"years", "year">>}

\* a.includes(b) for two single words of the vocabulary
TokIncludes(a, b) == a = b \/ <<a, b>> \in ProperSubstrings

\* text.includes(keyword), keyword a single word
Includes(text, keyword) == \E i \in DOMAIN text : TokIncludes(text[i], keyword)

RECURSIVE SplitEach(_, _)
\* s.split(sep) where sep matches one token of seps
SplitEach(s, seps) ==
  IF \A i \in DOMAIN s : s[i] \notin seps THEN <<s>>
  ELSE LET i == CHOOSE x \in DOMAIN s : s[x] \in seps /\ \A y \in 1..(x - 1) : s[y] \notin seps
       IN  <<SubSeq(s, 1, i - 1)>> \o SplitEach(SubSeq(s, i + 1, Len(s)), seps)

NonEmpty(piece) == piece # <<>>

\* s.split(/\s+/): the pieces between runs of white space (the empty first or
\* last piece of a text that starts or ends with white space is left out; every
\* consumer drops pieces of fewer than four characters)
SplitWords(s) == SelectSeq(SplitEach(s, {" ", "\n"}), NonEmpty)

\* [...new Set(xs)]: first occurrences, in order
Dedupe(xs) ==
  LET IsFirst(i) == \A j \in 1..(i - 1) : xs[j] # xs[i]
      first == {i \in DOMAIN xs : IsFirst(i)}
  IN  [k \in 1..Cardinality(first) |->
         xs[CHOOSE i \in first : Cardinality({j \in first : j <= i}) = k]]

\* Math.round(num / den) for num >= 0, den > 0
Round(num, den) == (2 * num + den) \div (2 * den)

\* number of elements of the set S of words found in text
CountIncluded(text, S) == Cardinality({k \in S : Includes(text, k)})

\* ------------------------------------------------------------------ documents
\* The uploaded files: "corrupt" cannot be decoded, "resume" decodes to a text
\* of one page.
Docs == {"corrupt", "resume"}

\* fs.readFile, pdfParse and PDFDocument.load all succeed
Decodes(doc) == doc # "corrupt"

\* pdfData.text
PdfText(doc) ==
  IF Decodes(doc)
    THEN <<"Summary", "\n", "prose", "\n",
           "Experience", " ", "2019", " ", "2022", "\n",
           "5", " ", "years", " ", "of", " ", "experience", "\n",
           "Skills", ":", " ", "python", ",", " ", "docker", "\n",
           "john@x.com", " ", "555-123-4567">>
    ELSE <<>>

\* pdfDoc.getPages().length
PdfPages(doc) == 1

StandardFonts == {"Arial", "Times New Roman", "Calibri", "Helvetica", "Verdana"}

getPageFonts(page) == StandardFonts

checkStandardFonts(fonts) == \E font \in fonts : font \in StandardFonts

checkFontConsistency(fonts) == Cardinality(fonts) <= 3

extractFonts(pages) ==
  LET fonts == UNION {getPageFonts(page) : page \in 1..pages}
  IN  [used |-> fonts,
       isStandard |-> checkStandardFonts(fonts),
       consistency |-> checkFontConsistency(fonts)]

detectTables(pages) == FALSE

detectImages(pages) == FALSE

detectComplexLayout(pages) == FALSE

extractLayoutInfo(pages) ==
  [hasTables |-> detectTables(pages),
   hasImages |-> detectImages(pages),
   hasComplexLayout |-> detectComplexLayout(pages),
   pageCount |-> pages]

\* the value extractDetailedPDFInfo resolves to for a file that decodes (info
\* and metadata, which nothing reads, are left out)
extractDetailedPDFInfo(doc) ==
  [text |-> PdfText(doc),
   pages |-> PdfPages(doc),
   fonts |-> extractFonts(PdfPages(doc)),
   layout |-> extractLayoutInfo(PdfPages(doc))]

\* ------------------------------------------------------------------ scorers
\* the token is one of the four bullet glyphs of the character class (written "(bullet)")
IsBullet(tok) == tok = "(bullet)"

\* the token matches the e-mail pattern, the phone pattern
IsEmail(tok) == tok = "john@x.com"
IsPhone(tok) == tok = "555-123-4567"

checkConsistentFormatting(text) ==
  LET bulletPoints == Cardinality({i \in DOMAIN text : IsBullet(text[i])})
      dashes == Cardinality({i \in DOMAIN text :
                               text[i] = "-" /\ (i = 1 \/ text[i - 1] = "\n")})
      diff == bulletPoints - dashes
  IN  (IF diff < 0 THEN -diff ELSE diff) < 3

analyzeLayoutStructure(pdfInfo) ==
  LET text == toLowerCase(pdfInfo.text)
      sectionHeaders == {"summary", "experience", "education", "skills", "contact", "objective"}
      hasProperHeaders == CountIncluded(text, sectionHeaders) >= 4
      consistentFormatting == checkConsistentFormatting(text)
      noTables == ~pdfInfo.layout.hasTables
      noGraphics == ~pdfInfo.layout.hasImages
      standardFormat == ~pdfInfo.layout.hasComplexLayout
      properSpacing == FALSE
  IN  [hasProperHeaders |-> hasProperHeaders,
       consistentFormatting |-> consistentFormatting,
       noTables |-> noTables,
       noGraphics |-> noGraphics,
       properSpacing |-> properSpacing,
       standardFormat |-> standardFormat,
       score |-> (IF hasProperHeaders THEN 20 ELSE 0)
               + (IF consistentFormatting THEN 15 ELSE 0)
               + (IF noTables THEN 10 ELSE 0)
               + (IF noGraphics THEN 10 ELSE 0)
               + (IF standardFormat THEN 10 ELSE 0)
               + (IF properSpacing THEN 10 ELSE 0)]

analyzeFontsAndFormatting(pdfInfo) ==
  LET usesStandardFonts == pdfInfo.fonts.isStandard
      consistentFonts == pdfInfo.fonts.consistency
      appropriateSizing == TRUE
      noFancyFormatting == TRUE
  IN  [usesStandardFonts |-> usesStandardFonts,
       consistentFonts |-> consistentFonts,
       appropriateSizing |-> appropriateSizing,
       noFancyFormatting |-> noFancyFormatting,
       score |-> (IF usesStandardFonts THEN 20 ELSE 0)
               + (IF consistentFonts THEN 15 ELSE 0)
               + (IF appropriateSizing THEN 10 ELSE 0)
               + (IF noFancyFormatting THEN 10 ELSE 0)]

hasProfessionalSummary(text) ==
  /\ \E keyword \in {"summary", "profile", "objective", "about"} : Includes(text, keyword)
  /\ LET lines == SplitEach(text, {"\n"})
     IN  \E i \in DOMAIN lines : CharLen(lines[i]) > 50

hasDetailedExperience(text) ==
  /\ \E keyword \in {"experience", "work history", "employment"} : Includes(text, keyword)
  /\ CountYearRuns(text) >= 2

hasRelevantSkills(text) ==
  /\ \E keyword \in {"skills", "competencies", "technologies"} : Includes(text, keyword)
  /\ CountAlphaRuns(text) > 10

hasEducationInfo(text) ==
  \E keyword \in {"education", "degree", "university", "college"} : Includes(text, keyword)

hasContactInfo(text) ==
  /\ \E i \in DOMAIN text : IsEmail(text[i])
  /\ \E i \in DOMAIN text : IsPhone(text[i])

calculateKeywordDensity(text) ==
  CountIncluded(text,
    {"javascript", "python", "java", "react", "node.js", "mongodb", "sql",
     "aws", "docker", "kubernetes", "git", "agile", "scrum", "leadership",
     "management", "analysis", "development", "design", "implementation"})

\* Math.min
Min(a, b) == IF a <= b THEN a ELSE b

analyzeContentQuality(text) ==
  LET lowerText == toLowerCase(text)
      summary == hasProfessionalSummary(lowerText)
      experience == hasDetailedExperience(lowerText)
      skills == hasRelevantSkills(lowerText)
      education == hasEducationInfo(lowerText)
      contact == hasContactInfo(lowerText)
      keywordDensity == calculateKeywordDensity(lowerText)
  IN  [hasProfessionalSummary |-> summary,
       hasDetailedExperience |-> experience,
       hasRelevantSkills |-> skills,
       hasEducationInfo |-> education,
       hasContactInfo |-> contact,
       keywordDensity |-> keywordDensity,
       score |-> (IF summary THEN 15 ELSE 0)
               + (IF experience THEN 20 ELSE 0)
               + (IF skills THEN 15 ELSE 0)
               + (IF education THEN 10 ELSE 0)
               + (IF contact THEN 15 ELSE 0)
               + Min(keywordDensity * 2, 25)]

\* a quotient that is not rounded is kept as numerator and denominator
calculateAdvancedATSScore_NoCap(layout, fonts, content) ==
  [total |-> layout.score + fonts.score + content.score,
   layout |-> layout.score,
   fonts |-> fonts.score,
   content |-> content.score,
   breakdown |-> [layoutPercentage |-> <<layout.score * 100, 75>>,
                  fontPercentage |-> <<fonts.score * 100, 55>>,
                  contentPercentage |-> <<content.score * 100, 100>>]]

calculateAdvancedATSScore(layout, fonts, content) ==
  [total |-> Min(layout.score + fonts.score + content.score, 100),
   layout |-> layout.score,
   fonts |-> fonts.score,
   content |-> content.score,
   breakdown |-> [layoutPercentage |-> <<layout.score * 100, 75>>,
                  fontPercentage |-> <<fonts.score * 100, 55>>,
                  contentPercentage |-> <<content.score * 100, 100>>]]

\* ------------------------------------------------------------------ job match
\* b occurs in a as a substring (a.includes(b)), both sequences of tokens
StrIncludes(a, b) ==
  \/ b = <<>>
  \/ \E i \in 1..(Len(a) - Len(b) + 1) :
       \A k \in 1..Len(b) : TokIncludes(a[i + k - 1], b[k])

TechnicalKeywords ==
  {"javascript", "python", "java", "react", "node.js", "mongodb", "sql",
   "aws", "docker", "kubernetes", "git", "agile", "scrum", "leadership",
   "management", "analysis", "development", "design", "implementation",
   "frontend", "backend", "fullstack", "api", "rest", "graphql",
   "machine learning", "ai", "data science", "analytics", "cloud",
   "devops", "ci/cd", "testing", "automation", "security"}

\* the words (sequences of tokens without white space) that contain, or are
\* contained in, a technical keyword
extractKeywords(text) ==
  LET words == SplitWords(toLowerCase(text))
      IsKeyword(word) ==
        /\ CharLen(word) > 3
        /\ \E keyword \in TechnicalKeywords :
             StrIncludes(word, <<keyword>>) \/ StrIncludes(<<keyword>>, word)
  IN  Dedupe(SelectSeq(words, IsKeyword))

\* the alternatives of the three skillPatterns, lower-cased
SkillTriggers ==
  <<{<<"skill">>, <<"skills">>, <<"technology">>, <<"technologies">>, <<"tool">>,
     <<"tools">>, <<"framework">>, <<"frameworks">>, <<"language">>, <<"languages">>},
    {<<"proficient", " ", "in">>, <<"experienced", " ", "with">>, <<"expert", " ", "in">>},
    {<<"knowledge", " ", "of">>, <<"familiar", " ", "with">>}>>

AllSkillTriggers == SkillTriggers[1] \cup SkillTriggers[2] \cup SkillTriggers[3]

\* the length of the alternative of trigs found at position i of text, else 0
TriggerLenAt(text, i, trigs) ==
  LET found == {trig \in trigs :
                  /\ i + Len(trig) - 1 <= Len(text)
                  /\ toLowerCase(SubSeq(text, i, i + Len(trig) - 1)) = trig}
  IN  IF found = {} THEN 0 ELSE Len(CHOOSE trig \in found : TRUE)

\* the last index of the longest run of tokens of S that starts at j (j - 1
\* when there is none)
RunEnd(text, j, S) ==
  CHOOSE k \in (j - 1)..Len(text) :
    /\ \A x \in j..k : text[x] \in S
    /\ k = Len(text) \/ text[k + 1] \notin S

\* as RunEnd, for the tokens outside S
RunEndNot(text, j, S) ==
  CHOOSE k \in (j - 1)..Len(text) :
    /\ \A x \in j..k : text[x] \notin S
    /\ k = Len(text) \/ text[k + 1] \in S

\* the class [:\s] of the skill patterns
SkillSeps == {":", " ", "\n"}

RECURSIVE StripTriggers(_)
\* match.replace(/(?:skills?|...|familiar with)[:\s]+/gi, '')
StripTriggers(s) ==
  IF s = <<>> THEN <<>>
  ELSE LET n == TriggerLenAt(s, 1, AllSkillTriggers)
           e == RunEnd(s, n + 1, SkillSeps)
       IN  IF n > 0 /\ e > n THEN StripTriggers(SubSeq(s, e + 1, Len(s)))
           ELSE <<Head(s)>> \o StripTriggers(Tail(s))

\* skillText.split(/[,;|&]/).map(trim).filter(length > 2)
SkillList(skillText) ==
  LET pieces == SplitEach(skillText, {",", ";", "|", "&"})
      trimmed == [i \in DOMAIN pieces |-> Trim(pieces[i])]
      LongEnough(skill) == CharLen(skill) > 2
  IN  SelectSeq(trimmed, LongEnough)

RECURSIVE SkillMatches(_, _, _)
\* the skills of all matches of one pattern from position i on: a trigger,
\* then [:\s]+, then the capture [^.\n]+
SkillMatches(text, i, trigs) ==
  IF i > Len(text) THEN <<>>
  ELSE LET n == TriggerLenAt(text, i, trigs)
           sepEnd == RunEnd(text, i + n, SkillSeps)
           capEnd == RunEndNot(text, sepEnd + 1, {".", "\n"})
       IN  IF n > 0 /\ sepEnd >= i + n /\ capEnd > sepEnd
             THEN SkillList(StripTriggers(SubSeq(text, i, capEnd)))
                    \o SkillMatches(text, capEnd + 1, trigs)
             ELSE SkillMatches(text, i + 1, trigs)

extractSkills(text) ==
  Dedupe(SkillMatches(text, 1, SkillTriggers[1])
           \o SkillMatches(text, 1, SkillTriggers[2])
           \o SkillMatches(text, 1, SkillTriggers[3]))

\* parseInt of the first match of
\* /(\d+)[\s-]*(\+)?[\s]*years?[\s]*of[\s]*experience/gi, or -1 without a match
FirstYearsOfExperience(text) ==
  LET low == toLowerCase(text)
      WS == {" ", "\n"}
      MatchAt(i) ==
        LET a == RunEnd(low, i + 1, WS \cup {"-"})
            b == IF a < Len(low) /\ low[a + 1] = "+" THEN a + 1 ELSE a
            c == RunEnd(low, b + 1, WS)
            d == RunEnd(low, c + 2, WS)
            e == RunEnd(low, d + 2, WS)
        IN  /\ TokNumber(low[i]) >= 0
            /\ c < Len(low) /\ low[c + 1] \in {"year", "years"}
            /\ d < Len(low) /\ low[d + 1] = "of"
            /\ e < Len(low) /\ low[e + 1] = "experience"
      starts == {i \in DOMAIN low : MatchAt(i)}
  IN  IF starts = {} THEN -1
      ELSE TokNumber(low[CHOOSE i \in starts : \A j \in starts : i <= j])

calculateExperienceMatch_Uncapped(resumeText, jobDescription) ==
  LET jobYears == FirstYearsOfExperience(jobDescription)
      requiredYears == IF jobYears >= 0 THEN jobYears ELSE 0
      resumeYears == FirstYearsOfExperience(resumeText)
      actualYears == IF resumeYears >= 0 THEN resumeYears ELSE 0
  IN  IF requiredYears = 0 THEN 100
      ELSE Round(actualYears * 100, requiredYears)

calculateExperienceMatch(resumeText, jobDescription) ==
  LET jobYears == FirstYearsOfExperience(jobDescription)
      requiredYears == IF jobYears >= 0 THEN jobYears ELSE 0
      resumeYears == FirstYearsOfExperience(resumeText)
      actualYears == IF resumeYears >= 0 THEN resumeYears ELSE 0
  IN  IF requiredYears = 0 THEN 100
      ELSE IF actualYears >= requiredYears THEN 100
      ELSE Round(actualYears * 100, requiredYears)

\* a JavaScript number that may be NaN
NaN == [nan |-> TRUE, v |-> 0]
Number(n) == [nan |-> FALSE, v |-> n]

\* Math.round((matched / total) * 100)
RoundedPercent_Floor(matched, total) ==
  IF total = 0 THEN NaN ELSE Number((matched * 100) \div total)

RoundedPercent(matched, total) ==
  IF total = 0 THEN NaN ELSE Number(Round(matched * 100, total))

\* x || 0
OrZero(x) == IF x.nan THEN 0 ELSE x.v

\* a keyword of the job matches when it contains, or is contained in, a keyword
\* of the resume
MatchedAgainst(jobItems, resumeItems) ==
  LET Matches(item) ==
        \E i \in DOMAIN resumeItems :
          \/ StrIncludes(toLowerCase(resumeItems[i]), toLowerCase(item))
          \/ StrIncludes(toLowerCase(item), toLowerCase(resumeItems[i]))
  IN  SelectSeq(jobItems, Matches)

\* the first n elements of xs
Take_All(xs, n) == xs

Take(xs, n) == SubSeq(xs, 1, Min(n, Len(xs)))

\* Math.round((keywordMatch + skillsMatch + experienceMatch) / 3)
RoundedMean(keywordMatch, skillsMatch, experienceMatch) ==
  IF keywordMatch.nan \/ skillsMatch.nan THEN NaN
  ELSE Number(Round(keywordMatch.v + skillsMatch.v + experienceMatch, 3))

\* jobKeywords.filter(keyword => !matchedKeywords.includes(keyword))
NotMatchedAmong(jobKeywords, matchedKeywords) ==
  LET NotMatched(keyword) == \A i \in DOMAIN matchedKeywords : matchedKeywords[i] # keyword
  IN  SelectSeq(jobKeywords, NotMatched)

\* the object analyzeJobMatch returns, from the values of its locals
JobMatchResult(keywordMatch, skillsMatch, experienceMatch, matchedKeywords, jobKeywords, resumeKeywords) ==
  [keywordMatch |-> OrZero(keywordMatch),
   skillsMatch |-> OrZero(skillsMatch),
   experienceMatch |-> experienceMatch,
   overallMatch |-> OrZero(RoundedMean(keywordMatch, skillsMatch, experienceMatch)),
   matchedKeywords |-> matchedKeywords,
   missingKeywords |-> Take(NotMatchedAmong(jobKeywords, matchedKeywords), 10),
   jobKeywords |-> Take(jobKeywords, 20),
   resumeKeywords |-> Take(resumeKeywords, 20)]

\* the figures of analyzeJobMatch, from the keywords and skills of both texts
JobMatchOf(jobKeywords, resumeKeywords, jobSkills, resumeSkills, experienceMatch) ==
  JobMatchResult(
    RoundedPercent(Len(MatchedAgainst(jobKeywords, resumeKeywords)), Len(jobKeywords)),
    RoundedPercent(Len(MatchedAgainst(jobSkills, resumeSkills)), Len(jobSkills)),
    experienceMatch,
    MatchedAgainst(jobKeywords, resumeKeywords),
    jobKeywords,
    resumeKeywords)

analyzeJobMatch(resumeText, jobDescription) ==
  JobMatchOf(extractKeywords(jobDescription), extractKeywords(resumeText),
             extractSkills(jobDescription), extractSkills(resumeText),
             calculateExperienceMatch(resumeText, jobDescription))

\* ------------------------------------------------------------------ state
VARIABLES
  aiEnabled,      \* AdvancedATSAnalyzer.aiEnabled, set by the constructor
  analysisCache,  \* AdvancedATSAnalyzer.analysisCache: cache key -> reference
  heap,           \* the objects allocated so far: id -> properties
  files,          \* the requests whose uploaded temporary file exists on disk
  reqs,           \* per request: position in the handler, inputs, locals, outcome
  lastWriter,     \* history: cache key -> the request whose set() ran last
  mutated,        \* history: the returned objects a caller has written to
  keyArgs,        \* buildCacheKey alone: its arguments
  keyRet,         \* buildCacheKey alone: the key it returned
  exText,         \* analyzeResumeText alone: its argument
  exReply,        \* analyzeResumeText alone: what generateContent resolves to
  exRet,          \* analyzeResumeText alone: what it returned
  callArgs,       \* a scorer, grader or comparator alone: its arguments
  callRet,        \* a scorer, grader or comparator alone: what it returned
  db,             \* the stored collections of the web application: users, resumes, interviews
  inflight        \* the web handlers and generators under way: position, locals, observations
\* Fields of reqs[r] that record history only: decoded (the file was decoded),
\* aiCalls (calls of generateContent), aiAnalysis (the parsed reply), cacheHit,
\* hitAfterMutation, returned (what the reference returned by the call showed
\* at the moment it was returned).

\* the variables of the two functions that are examined on their own
pureVars == <<keyArgs, keyRet, exText, exReply, exRet, callArgs, callRet>>

\* the variables of the analyzer, of the web application
analyzerVars == <<aiEnabled, analysisCache, heap, files, reqs, lastWriter, mutated>>

serverVars == <<db, inflight>>

vars == <<analyzerVars, pureVars, serverVars>>

AnalysisModes == {"general", "job-specific"}

\* the job descriptions a request may carry: none, blank, a real one
JobDescriptions ==
  {<<>>,
   <<" ">>,
   <<"3", " ", "years", " ", "of", " ", "experience", ".", " ",
     "Skills", ":", " ", "python", ",", " ", "sql">>}

\* a value not yet assigned
None == [none |-> TRUE]

\* process.env.X || default, for the two settings AIService reads
EnvOrDefault(env, default) == IF env # "" THEN env ELSE default

\* AIService.isConfigured() after the constructor ran with the environment
\* values url and token ("" when unset)
isConfigured(url, token) ==
  LET baseUrl == EnvOrDefault(url, "https://openwebui.scubey.com")
      jwtToken == EnvOrDefault(token, "eyJhbGciOiJIUzI1NiIsInR5cCI6IkpXVCJ9")
  IN  baseUrl # "" /\ jwtToken # ""

IdleRequest ==
  [pc |-> "idle", hasFile |-> FALSE, doc |-> "corrupt", mode |-> "general", jd |-> <<>>,
   decoded |-> FALSE, cacheKey |-> None, layout |-> None, fonts |-> None,
   content |-> None, jobMatch |-> None, scoring |-> None, feedback |-> None,
   aiCalls |-> 0, aiAnalysis |-> None, cacheHit |-> FALSE, hitAfterMutation |-> FALSE,
   result |-> None, returned |-> None, resp |-> 0]

\* the analyzer and the handler after construction
AnalyzerInit ==
  /\ \E url \in {"", "https://proxy.example"}, token \in {"", "secret"} :
       aiEnabled = isConfigured(url, token)
  /\ analysisCache = <<>>
  /\ heap = <<>>
  /\ files = {}
  /\ reqs = [r \in Reqs |-> IdleRequest]
  /\ lastWriter = <<>>
  /\ mutated = {}

Init ==
  /\ AnalyzerInit
  /\ db = None
  /\ inflight = None
  /\ keyArgs = None
  /\ keyRet = None
  /\ exText = None
  /\ exReply = None
  /\ exRet = None
  /\ callArgs = None
  /\ callRet = None

\* ------------------------------------------------------------------ analyzer
\* obj.f for a property the scorers never set: undefined, hence falsy
Flag(obj, f) == IF f \in DOMAIN obj THEN obj[f] ELSE FALSE

\* the messages pushed, in order, each named by its rule
generateAdvancedFeedback(layout, fonts, content, scoring) ==
  LET Rule(cond, name) == IF cond THEN <<name>> ELSE <<>>
  IN  Rule(~layout.hasProperHeaders, "no-headers")
      \o Rule(~layout.consistentFormatting, "inconsistent-formatting")
      \o Rule(Flag(layout, "hasTables"), "tables")
      \o Rule(Flag(layout, "hasGraphics"), "graphics")
      \o Rule(~fonts.usesStandardFonts, "non-standard-fonts")
      \o Rule(~fonts.consistentFonts, "too-many-fonts")
      \o Rule(~content.hasProfessionalSummary, "no-summary")
      \o Rule(~content.hasDetailedExperience, "thin-experience")
      \o Rule(~content.hasRelevantSkills, "no-skills")
      \o Rule(~content.hasContactInfo, "no-contact")
      \o Rule(content.keywordDensity < 5, "low-keyword-density")
      \o Rule(layout.score >= 60, "good-layout")
      \o Rule(fonts.score >= 40, "good-fonts")
      \o Rule(content.score >= 70, "good-content")

\* the catch block of analyzeResumeAdvanced: { success: false, error }
Failure(rq, message) ==
  [rq EXCEPT !.result = [success |-> FALSE, error |-> message]]

\* the route handler once analyzeResumeAdvanced has resolved: both branches
\* start cleanupTempFile and wait for fs.remove
OnAnalysisResult_LeakOnFailure(rq) ==
  IF rq.result.success THEN [rq EXCEPT !.pc = "cleanup"]
  ELSE [rq EXCEPT !.pc = "done", !.resp = 500]

OnAnalysisResult(rq) == [rq EXCEPT !.pc = "cleanup"]

\* performAIAnalysis throws after its one call of generateContent (the
\* collaborator failed, or its reply holds no JSON): analyzeResumeAdvanced
\* catches the error and resolves to { success: false, error }
OnAIFailure_Retry(rq, message) ==
  IF rq.aiCalls < 2 THEN [rq EXCEPT !.aiCalls = @ + 1]
  ELSE OnAnalysisResult(Failure(rq, message))

OnAIFailure(rq, message) == OnAnalysisResult(Failure(rq, message))

\* steps 6 to 8 of analyzeResumeAdvanced, up to the await of the AI call
ScoreAndAskAI(rq) ==
  LET scoring == calculateAdvancedATSScore(rq.layout, rq.fonts, rq.content)
      feedback == generateAdvancedFeedback(rq.layout, rq.fonts, rq.content, scoring)
      scored == [rq EXCEPT !.scoring = scoring, !.feedback = feedback]
  IN  IF aiEnabled
        THEN [scored EXCEPT !.aiCalls = @ + 1, !.pc = "aiwait"]
        ELSE OnAnalysisResult(
               Failure(scored, "AI service is required for analysis. Please configure the AI proxy."))

\* steps 2 to 5 of analyzeResumeAdvanced after a cache miss
AnalyzeMiss(rq, pdfInfo) ==
  LET analysed == [rq EXCEPT !.layout = analyzeLayoutStructure(pdfInfo),
                             !.fonts = analyzeFontsAndFormatting(pdfInfo),
                             !.content = analyzeContentQuality(pdfInfo.text)]
  IN  IF rq.mode = "job-specific" /\ Trim(rq.jd) # <<>>
        THEN [analysed EXCEPT !.jobMatch = analyzeJobMatch(pdfInfo.text, rq.jd),
                              !.pc = "jobmatch"]
        ELSE ScoreAndAskAI([analysed EXCEPT !.jobMatch = Null])

\* extractDetailedPDFInfo rethrows the decoding error and analyzeResumeAdvanced
\* catches it
OnDecodeError_Continue(rq) ==
  AnalyzeMiss([rq EXCEPT !.cacheKey = buildCacheKey(<<>>, rq.mode, rq.jd)],
              [text |-> <<>>, pages |-> 0, fonts |-> extractFonts(0),
               layout |-> extractLayoutInfo(0)])

OnDecodeError(rq) == OnAnalysisResult(Failure(rq, "decode error"))

\* aiAnalysis.f as a property value of the payload built by request r
AIField(r, parsed, f) ==
  IF f \notin DOMAIN parsed THEN Undefined
  ELSE IF MemberIsObject(parsed[f]) THEN Ref(ObjId(r, "ret", f))
  ELSE MemberValue(parsed[f])

\* the properties that analysisPayload.analysis copies from the AI reply
AIFields ==
  {"atsScore", "grade", "feedback", "strengths", "weaknesses", "recommendations",
   "sections", "contactInfo", "keywords", "experience", "education", "skills"}

\* aiAnalysis.jobMatch || jobMatch
PayloadJobMatch_HeuristicOnly(r, parsed, jobMatch) ==
  IF jobMatch = Null THEN Null ELSE Ref(ObjId(r, "ret", "jobMatch"))

PayloadJobMatch(r, parsed, jobMatch) ==
  IF Truthy(AIField(r, parsed, "jobMatch")) THEN AIField(r, parsed, "jobMatch")
  ELSE IF jobMatch = Null THEN Null
  ELSE Ref(ObjId(r, "ret", "jobMatch"))

\* the content of the nested object behind analysis.jobMatch, when it is one
PayloadJobMatchContent(parsed, jobMatch) ==
  IF "jobMatch" \in DOMAIN parsed THEN MemberValue(parsed["jobMatch"]) ELSE jobMatch

\* analysisPayload.analysis, as the heap objects request rq allocates for it
Payload(r, rq, parsed) ==
  LET NestedAI == {f \in AIFields : IsRef(AIField(r, parsed, f))}
      Heuristic == {"layout", "fonts", "content", "scoring"}
      top == [f \in AIFields |-> AIField(r, parsed, f)]
             @@ [f \in {"jobMatch"} |-> PayloadJobMatch(r, parsed, rq.jobMatch)]
             @@ [f \in {"analysisMode"} |-> Str(rq.mode)]
             @@ [f \in Heuristic |-> Ref(ObjId(r, "ret", f))]
  IN  (ObjId(r, "ret", "top") :> top)
      @@ [id \in {ObjId(r, "ret", f) : f \in NestedAI} |-> MemberValue(parsed[id[3]])]
      @@ [id \in {ObjId(r, "ret", f) : f \in Heuristic} |-> rq[id[3]]]
      @@ (IF IsRef(top["jobMatch"])
            THEN ObjId(r, "ret", "jobMatch") :> PayloadJobMatchContent(parsed, rq.jobMatch)
            ELSE <<>>)

\* analysisCache.set(key, ref)
cacheSet_IfAbsent(cache, key, ref) == cache @@ (key :> ref)

cacheSet(cache, key, ref) == (key :> ref) @@ cache

\* the cache hit: the analysis handed to the caller, as the objects allocated
\* for it and the reference returned
HitAnalysis_NoCopy(h, cached, r) == [objects |-> <<>>, ref |-> cached]

HitAnalysis(h, cached, r) ==
  [objects |-> JsonCopy(h, cached, r, "ret"), ref |-> ObjId(r, "ret", "top")]

\* ------------------------------------------------------------------ actions
\* POST /analyze-ats arrives; upload.single has stored the file, if any.  The
\* handler runs up to the first await inside analyzeResumeAdvanced.
Receive(r) ==
  /\ reqs[r].pc = "idle"
  /\ \E hasFile \in BOOLEAN, doc \in Docs, mode \in AnalysisModes, jd \in JobDescriptions :
       IF hasFile
         THEN /\ files' = files \cup {r}
              /\ reqs' = [reqs EXCEPT ![r] = [@ EXCEPT !.pc = "decoding", !.hasFile = TRUE,
                                                     !.doc = doc, !.mode = mode, !.jd = jd]]
         ELSE /\ files' = files
              /\ reqs' = [reqs EXCEPT ![r] = [@ EXCEPT !.pc = "done", !.resp = 400]]
  /\ UNCHANGED <<pureVars, serverVars, aiEnabled, analysisCache, heap, lastWriter, mutated>>

\* extractDetailedPDFInfo settles: decode error, cache hit, or the scorers run
DecodeDone(r) ==
  /\ reqs[r].pc = "decoding"
  /\ LET rq == reqs[r]
         pdfInfo == extractDetailedPDFInfo(rq.doc)
         cacheKey == buildCacheKey(pdfInfo.text, rq.mode, rq.jd)
         keyed == [rq EXCEPT !.decoded = TRUE, !.cacheKey = cacheKey]
     IN  IF ~Decodes(rq.doc)
           THEN /\ reqs' = [reqs EXCEPT ![r] = OnDecodeError(rq)]
                /\ heap' = heap
         ELSE IF cacheKey \in DOMAIN analysisCache
           THEN LET hit == HitAnalysis(heap, analysisCache[cacheKey], r)
                    h2 == hit.objects @@ heap
                IN  /\ heap' = h2
                    /\ reqs' = [reqs EXCEPT ![r] = OnAnalysisResult(
                                  [keyed EXCEPT !.cacheHit = TRUE,
                                                !.hitAfterMutation = (mutated # {}),
                                                !.result = [success |-> TRUE, analysis |-> hit.ref],
                                                !.returned = DeepVal(h2, hit.ref)])]
         ELSE /\ reqs' = [reqs EXCEPT ![r] = AnalyzeMiss(keyed, pdfInfo)]
              /\ heap' = heap
  /\ UNCHANGED <<pureVars, serverVars, aiEnabled, analysisCache, files, lastWriter, mutated>>

\* the await of analyzeJobMatch resumes
JobMatchDone(r) ==
  /\ reqs[r].pc = "jobmatch"
  /\ reqs' = [reqs EXCEPT ![r] = ScoreAndAskAI(reqs[r])]
  /\ UNCHANGED <<pureVars, serverVars, aiEnabled, analysisCache, heap, files, lastWriter, mutated>>

\* generateContent settles: performAIAnalysis throws, or the payload is built,
\* cached and returned
AIReply(r) ==
  /\ reqs[r].pc = "aiwait"
  /\ \E outcome \in AIOutcomes :
       LET rq == reqs[r]
       IN  IF ~outcome.ok
             THEN /\ reqs' = [reqs EXCEPT ![r] = OnAIFailure(rq, outcome.error)]
                  /\ UNCHANGED <<analysisCache, heap, lastWriter>>
             ELSE LET h2 == Payload(r, rq, outcome.parsed) @@ heap
                      ret == ObjId(r, "ret", "top")
                      h3 == JsonCopy(h2, ret, r, "stored") @@ h2
                  IN  /\ heap' = h3
                      /\ analysisCache' = cacheSet(analysisCache, rq.cacheKey, ObjId(r, "stored", "top"))
                      /\ lastWriter' = (rq.cacheKey :> r) @@ lastWriter
                      /\ reqs' = [reqs EXCEPT ![r] = OnAnalysisResult(
                                    [rq EXCEPT !.aiAnalysis = outcome.parsed,
                                               !.result = [success |-> TRUE, analysis |-> ret],
                                               !.returned = DeepVal(h3, ret)])]
  /\ UNCHANGED <<pureVars, serverVars, aiEnabled, files, mutated>>

\* res.json / res.status(500).json of the handler's try block; a throw lands in
\* the catch block, which starts cleanupTempFile again
Respond(rq, throws) ==
  IF throws THEN [rq EXCEPT !.pc = "cleanupAfterThrow"]
  ELSE [rq EXCEPT !.pc = "done", !.resp = IF rq.result.success THEN 200 ELSE 500]

\* fs.remove of cleanupTempFile settles (the removal itself succeeds), and the
\* handler sends its response
RemoveDone(r) ==
  /\ reqs[r].pc = "cleanup"
  /\ files' = files \ {r}
  /\ \E throws \in BOOLEAN : reqs' = [reqs EXCEPT ![r] = Respond(reqs[r], throws)]
  /\ UNCHANGED <<pureVars, serverVars, aiEnabled, analysisCache, heap, lastWriter, mutated>>

\* fs.remove started by the catch block settles; the handler answers 500
RemoveAfterThrowDone(r) ==
  /\ reqs[r].pc = "cleanupAfterThrow"
  /\ files' = files \ {r}
  /\ reqs' = [reqs EXCEPT ![r] = [@ EXCEPT !.pc = "done", !.resp = 500]]
  /\ UNCHANGED <<pureVars, serverVars, aiEnabled, analysisCache, heap, lastWriter, mutated>>

\* a caller writes to an analysis object it was handed: a property of the
\* object itself, or a property of its nested layout object
MutateReturned(r) ==
  /\ reqs[r].result # None
  /\ reqs[r].result.success
  /\ Cardinality(mutated) < MaxMut
  /\ \E part \in {"top", "layout"} :
       LET top == reqs[r].result.analysis
       IN  /\ <<r, part>> \notin mutated
           /\ mutated' = mutated \cup {<<r, part>>}
           /\ IF part = "top"
                THEN heap' = [heap EXCEPT ![top] = ("atsScore" :> Num(-1)) @@ @]
                ELSE heap' = [heap EXCEPT ![heap[top]["layout"].id] = [@ EXCEPT !.score = -1]]
  /\ UNCHANGED <<pureVars, serverVars, aiEnabled, analysisCache, files, reqs, lastWriter>>

Next ==
  \E r \in Reqs :
    \/ Receive(r)
    \/ DecodeDone(r)
    \/ JobMatchDone(r)
    \/ AIReply(r)
    \/ RemoveDone(r)
    \/ RemoveAfterThrowDone(r)
    \/ MutateReturned(r)

Spec == Init /\ [][Next]_vars

\* ------------------------------------------------------------------ PDFTextExtractor
\* a resume with a job, a degree and full contact details
DeveloperResume ==
  <<"Summary", "\n",
    "Experience", "\n",
    "Senior", " ", "Developer", "\n",
    "Acme", " ", "Inc", "\n",
    "2019", "\n",
    "-", " ", "built", "\n",
    "Education", "\n",
    "Bachelor", "\n",
    "State", " ", "University", "\n",
    "2022", "\n",
    "Skills", ":", " ", "python", ",", " ", "docker", "\n",
    "john@x.com", " ", "555-123-4567", " ", "linkedin.com/in/john">>

\* a resume whose experience section starts with a dashed line
DashResume == <<"Experience", "\n", "-", " ", "built">>

\* the texts handed to analyzeResumeText
ExtractorTexts == {<<>>, PdfText("resume"), DeveloperResume, DashResume}

\* a value computed, an exception thrown
Value(v) == [ok |-> TRUE, value |-> v]
Thrown(message) == [ok |-> FALSE, error |-> message]

sectionPatterns ==
  [summary |-> {<<"summary">>, <<"objective">>, <<"profile">>, <<"about">>},
   experience |-> {<<"experience">>, <<"work", " ", "history">>, <<"employment">>, <<"career">>},
   education |-> {<<"education">>, <<"academic">>, <<"qualifications">>, <<"degrees">>},
   skills |-> {<<"skills">>, <<"competencies">>, <<"technologies">>, <<"expertise">>},
   projects |-> {<<"projects">>, <<"portfolio">>, <<"achievements">>},
   certifications |-> {<<"certifications">>, <<"certificates">>, <<"licenses">>}]

identifySections(text) ==
  LET lowerText == toLowerCase(text)
  IN  [section \in DOMAIN sectionPatterns |->
         \E pattern \in sectionPatterns[section] : StrIncludes(lowerText, pattern)]

keywordCategories ==
  [technical |-> <<<<"javascript">>, <<"python">>, <<"react">>, <<"node.js">>, <<"sql">>,
                   <<"html">>, <<"css">>, <<"git">>, <<"docker">>, <<"aws">>>>,
   soft |-> <<<<"leadership">>, <<"communication">>, <<"teamwork">>,
              <<"problem", " ", "solving">>, <<"management">>, <<"collaboration">>>>,
   action |-> <<<<"developed">>, <<"created">>, <<"managed">>, <<"led">>, <<"implemented">>,
                <<"designed">>, <<"built">>, <<"achieved">>>>,
   education |-> <<<<"bachelor">>, <<"master">>, <<"degree">>, <<"university">>,
                   <<"college">>, <<"phd">>, <<"diploma">>>>,
   experience |-> <<<<"years">>, <<"experience">>, <<"senior">>, <<"junior">>, <<"intern">>,
                    <<"internship">>, <<"freelance">>>>]

\* PDFTextExtractor.extractKeywords
Extractor_extractKeywords(text) ==
  LET lowerText == toLowerCase(text)
      Found(keyword) == StrIncludes(lowerText, keyword)
  IN  [category \in DOMAIN keywordCategories |-> SelectSeq(keywordCategories[category], Found)]

IsLinkedin(tok) == tok = "linkedin.com/in/john"
IsGithub(tok) == tok = "github.com/john"

\* text.match(pattern)[0], hits being the positions of the tokens the pattern
\* matches
FirstMatch(text, hits) == text[CHOOSE i \in hits : \A j \in hits : i <= j]

extractContactInfo(text) ==
  LET emailMatch == {i \in DOMAIN text : IsEmail(text[i])}
      phoneMatch == {i \in DOMAIN text : IsPhone(text[i])}
      linkedinMatch == {i \in DOMAIN text : IsLinkedin(text[i])}
      githubMatch == {i \in DOMAIN text : IsGithub(text[i])}
      hits == [email |-> emailMatch, phone |-> phoneMatch,
               linkedin |-> linkedinMatch, github |-> githubMatch]
  IN  [k \in {x \in DOMAIN hits : hits[x] # {}} |-> FirstMatch(text, hits[k])]

\* the words of the vocabulary that start with a capital letter, and the
\* other words made of letters only
CapitalizedWords ==
  {"Summary", "Experience", "Skills", "Education", "Senior", "Developer", "Acme", "Inc",
   "Bachelor", "State", "University", "Projects"}
LowercaseWords ==
  {"years", "of", "built", "python", "docker", "sql", "java", "react", "kubernetes"}

IsAlphaWord(tok) == tok \in CapitalizedWords \cup LowercaseWords

\* line.match(/^[A-Z][allowed]+(?:w1|w2|...)/): a capitalized word, then words
\* and marks of the allowed class, then one of the closing words
MatchesHeadThenWord(line, allowedMarks, closingWords) ==
  /\ line # <<>>
  /\ line[1] \in CapitalizedWords
  /\ \E i \in 2..Len(line) :
       /\ line[i] \in closingWords
       /\ \A j \in 2..(i - 1) : IsAlphaWord(line[j]) \/ IsWS(line[j]) \/ line[j] \in allowedMarks

IsJobTitleLine(line) ==
  MatchesHeadThenWord(line, {},
    {"Developer", "Engineer", "Manager", "Analyst", "Designer", "Consultant"})

IsCompanyLine(line) ==
  MatchesHeadThenWord(line, {"&", ".", ","}, {"Inc", "LLC", "Corp", "Company", "Ltd"})

\* the words that start with the abbreviation of a month
MonthWords ==
  {"Jan", "Feb", "Mar", "Apr", "May", "Jun", "Jul", "Aug", "Sep", "Oct", "Nov", "Dec"}

\* line.match(/\d{4}|\b(?:Jan|Feb|...|Dec)/)
IsDurationLine(line) ==
  CountYearRuns(line) > 0 \/ \E i \in DOMAIN line : line[i] \in MonthWords

\* the forEach callback of extractExperience, applied to one line; st holds
\* the locals of extractExperience and the exception thrown, if any
ExperienceLine(st, line) ==
  LET trimmedLine == Trim(line)
      lower == toLowerCase(trimmedLine)
      hasJob == st.currentJob # None
  IN  IF ~st.thrown.ok \/ trimmedLine = <<>> THEN st
      ELSE IF Includes(lower, "experience") \/ StrIncludes(lower, <<"work", " ", "history">>)
        THEN [st EXCEPT !.inExperienceSection = TRUE]
      ELSE IF st.inExperienceSection /\ (Includes(lower, "education") \/ Includes(lower, "skills"))
        THEN [st EXCEPT !.inExperienceSection = FALSE]
      ELSE IF ~st.inExperienceSection THEN st
      ELSE IF IsJobTitleLine(trimmedLine)
        THEN [st EXCEPT !.experience = IF hasJob THEN Append(@, st.currentJob) ELSE @,
                        !.currentJob = [title |-> trimmedLine, company |-> <<>>,
                                        duration |-> <<>>, description |-> <<>>]]
      ELSE IF hasJob /\ st.currentJob.company = <<>> /\ IsCompanyLine(trimmedLine)
        THEN [st EXCEPT !.currentJob.company = trimmedLine]
      ELSE IF hasJob /\ IsDurationLine(trimmedLine)
        THEN [st EXCEPT !.currentJob.duration = trimmedLine]
      ELSE IF (hasJob /\ IsBullet(trimmedLine[1])) \/ trimmedLine[1] = "-"
        THEN IF hasJob
               THEN [st EXCEPT !.currentJob.description = @ \o trimmedLine \o <<" ">>]
             ELSE [st EXCEPT !.thrown =
                     Thrown("Cannot read properties of null (reading 'description')")]
      ELSE st

RECURSIVE ExperienceLines(_, _)
\* lines.forEach of extractExperience
ExperienceLines(st, lines) ==
  IF lines = <<>> THEN st ELSE ExperienceLines(ExperienceLine(st, Head(lines)), Tail(lines))

extractExperience(text) ==
  LET start == [inExperienceSection |-> FALSE, currentJob |-> None, experience |-> <<>>,
                thrown |-> Value(0)]
      st == ExperienceLines(start, SplitEach(text, {"\n"}))
  IN  IF ~st.thrown.ok THEN st.thrown
      ELSE Value(IF st.currentJob # None THEN Append(st.experience, st.currentJob)
                 ELSE st.experience)

\* the forEach callback of extractEducation, applied to one line
EducationLine(st, line) ==
  LET trimmedLine == Trim(line)
      lower == toLowerCase(trimmedLine)
      hasEdu == st.currentEdu # None
  IN  IF trimmedLine = <<>> THEN st
      ELSE IF Includes(lower, "education") \/ Includes(lower, "academic")
        THEN [st EXCEPT !.inEducationSection = TRUE]
      ELSE IF st.inEducationSection /\ (Includes(lower, "skills") \/ Includes(lower, "experience"))
        THEN [st EXCEPT !.inEducationSection = FALSE]
      ELSE IF ~st.inEducationSection THEN st
      ELSE IF \E w \in {"bachelor", "master", "phd", "associate", "diploma", "certificate"} :
                Includes(lower, w)
        THEN [st EXCEPT !.education = IF hasEdu THEN Append(@, st.currentEdu) ELSE @,
                        !.currentEdu = [degree |-> trimmedLine, institution |-> <<>>,
                                        duration |-> <<>>, description |-> <<>>]]
      ELSE IF /\ hasEdu
              /\ st.currentEdu.institution = <<>>
              /\ \E w \in {"university", "college", "institute", "school"} : Includes(lower, w)
        THEN [st EXCEPT !.currentEdu.institution = trimmedLine]
      ELSE IF hasEdu /\ IsDurationLine(trimmedLine)
        THEN [st EXCEPT !.currentEdu.duration = trimmedLine]
      ELSE st

RECURSIVE EducationLines(_, _)
\* lines.forEach of extractEducation
EducationLines(st, lines) ==
  IF lines = <<>> THEN st ELSE EducationLines(EducationLine(st, Head(lines)), Tail(lines))

extractEducation(text) ==
  LET start == [inEducationSection |-> FALSE, currentEdu |-> None, education |-> <<>>]
      st == EducationLines(start, SplitEach(text, {"\n"}))
  IN  IF st.currentEdu # None THEN Append(st.education, st.currentEdu) ELSE st.education

skillPatterns ==
  <<<<"javascript">>, <<"python">>, <<"java">>, <<"react">>, <<"angular">>, <<"vue">>,
    <<"node.js">>, <<"express">>, <<"mongodb">>, <<"mysql">>, <<"postgresql">>, <<"redis">>,
    <<"docker">>, <<"kubernetes">>, <<"aws">>, <<"azure">>, <<"git">>, <<"github">>,
    <<"gitlab">>, <<"jenkins">>, <<"ci/cd">>, <<"agile">>, <<"scrum">>, <<"photoshop">>,
    <<"illustrator">>, <<"figma">>, <<"sketch">>, <<"adobe">>, <<"ui/ux">>, <<"wireframing">>,
    <<"leadership">>, <<"communication">>, <<"teamwork">>, <<"problem", " ", "solving">>,
    <<"project", " ", "management">>, <<"analytical">>, <<"creative">>, <<"detail-oriented">>,
    <<"time", " ", "management">>>>

\* PDFTextExtractor.extractSkills
Extractor_extractSkills(text) ==
  LET lowerText == toLowerCase(text)
      Found(skill) == StrIncludes(lowerText, skill)
  IN  Dedupe(SelectSeq(skillPatterns, Found))

\* the calculateATSScore that is in effect: the class body defines the method
\* twice, and the second definition replaces the first. It returns the score
\* and leaves its own feedback in analysis.feedback.
calculateATSScore(analysis) ==
  LET contactCount == Cardinality(DOMAIN analysis.contactInfo)
      sectionCount == Cardinality({x \in DOMAIN analysis.sections : analysis.sections[x]})
      contact == contactCount >= 2
      sections == sectionCount >= 4
      experience == Len(analysis.experience) > 0
      education == Len(analysis.education) > 0
      skills == Len(analysis.skills) >= 5
      score == (IF contact THEN 20 ELSE 0) + (IF sections THEN 30 ELSE 0)
               + (IF experience THEN 25 ELSE 0) + (IF education THEN 15 ELSE 0)
               + (IF skills THEN 10 ELSE 0)
  IN  [score |-> Min(score, 100),
       feedback |->
         <<IF contact THEN "Contact information present" ELSE "Missing contact information",
           IF sections THEN "Good section structure" ELSE "Missing important sections",
           IF experience THEN "Work experience included" ELSE "No work experience found",
           IF education THEN "Education section present" ELSE "Education section missing",
           IF skills THEN "Good skills coverage" ELSE "Limited skills listed">>]

\* feedback.push(message) under a condition
PushIf(cond, message) == IF cond THEN <<message>> ELSE <<>>

\* generateFeedback reads analysis.keywords.actionWords.length: reading length
\* of a property that is not there throws a TypeError
generateFeedback(analysis) ==
  IF "actionWords" \notin DOMAIN analysis.keywords
    THEN Thrown("Cannot read properties of undefined (reading 'length')")
  ELSE Value(
    PushIf(~analysis.sections.summary,
           "ATS requires a professional summary section for better parsing")
    \o PushIf(~analysis.sections.experience,
              "Work experience section is critical for ATS compatibility")
    \o PushIf(~analysis.sections.education,
              "Education section helps ATS categorize your qualifications")
    \o PushIf(~analysis.sections.skills,
              "Dedicated skills section improves ATS keyword matching")
    \o PushIf("email" \notin DOMAIN analysis.contactInfo,
              "Email address is required for ATS contact parsing")
    \o PushIf("phone" \notin DOMAIN analysis.contactInfo,
              "Phone number helps ATS complete contact information")
    \o PushIf(Len(analysis.keywords.technical) < 5,
              "Include more industry-specific technical keywords for ATS matching")
    \o PushIf(Len(analysis.keywords.actionWords) < 3,
              "Add more action verbs (led, managed, developed) for ATS optimization")
    \o PushIf(Len(analysis.skills) < 5,
              "List specific skills and technologies for better ATS recognition")
    \o PushIf("linkedin" \notin DOMAIN analysis.contactInfo,
              "LinkedIn profile URL enhances ATS professional networking data"))

\* the grade bands of fallbackAnalysis
FallbackGrade(atsScore) ==
  IF atsScore >= 80 THEN "A"
  ELSE IF atsScore >= 60 THEN "B"
  ELSE IF atsScore >= 40 THEN "C"
  ELSE "D"

fallbackAnalysis(text) ==
  LET experience == extractExperience(text)
  IN  IF ~experience.ok THEN experience
      ELSE
        LET analysis == [sections |-> identifySections(text),
                         keywords |-> Extractor_extractKeywords(text),
                         contactInfo |-> extractContactInfo(text),
                         experience |-> experience.value,
                         education |-> extractEducation(text),
                         skills |-> Extractor_extractSkills(text),
                         atsScore |-> 0,
                         feedback |-> <<>>,
                         grade |-> "D",
                         recommendations |-> <<>>,
                         strengths |-> <<>>,
                         weaknesses |-> <<>>]
            scored == calculateATSScore(analysis)
            withScore == [analysis EXCEPT !.atsScore = scored.score,
                                          !.feedback = scored.feedback]
            feedback == generateFeedback(withScore)
        IN  IF ~feedback.ok THEN feedback
            ELSE Value([withScore EXCEPT !.feedback = feedback.value,
                                         !.grade = FallbackGrade(scored.score)])

\* PDFTextExtractor.performAIAnalysis, given what generateContent resolves to:
\* the parsed reply, or null after any failure
Extractor_performAIAnalysis(enabled, result) ==
  IF enabled /\ AIOutcome(result).ok THEN AIOutcome(result).parsed ELSE Null

\* { ...fallback, ...ai, aiEnhanced: true }
Enhanced(fallback, ai) ==
  [f \in DOMAIN fallback \cup DOMAIN ai \cup {"aiEnhanced"} |->
     IF f = "aiEnhanced" THEN TRUE
     ELSE IF f \in DOMAIN ai THEN MemberValue(ai[f])
     ELSE fallback[f]]

\* PDFTextExtractor.analyzeResumeText for an extractor whose aiEnabled is
\* enabled, result being what generateContent resolves to if it is called
analyzeResumeText(enabled, text, result) ==
  LET fallback == fallbackAnalysis(text)
      aiAnalysis == Extractor_performAIAnalysis(enabled, result)
  IN  IF ~fallback.ok THEN [success |-> FALSE, error |-> fallback.error]
      ELSE IF enabled /\ aiAnalysis # Null
        THEN [success |-> TRUE, analysis |-> Enhanced(fallback.value, aiAnalysis)]
      ELSE [success |-> TRUE, analysis |-> fallback.value]

\* the replies for which performAIAnalysis returns null
AIFails(result) == ~AIOutcome(result).ok

InitExtractor ==
  /\ AnalyzerInit
  /\ db = None
  /\ inflight = None
  /\ keyArgs = None
  /\ keyRet = None
  /\ exText \in ExtractorTexts
  /\ exReply \in AIResults
  /\ exRet = None
  /\ callArgs = None
  /\ callRet = None

\* one call of analyzeResumeText; the extractor's aiEnabled is computed from
\* the same environment, by the same isConfigured, as the analyzer's
AnalyzeResumeText ==
  /\ exRet = None
  /\ exRet' = analyzeResumeText(aiEnabled, exText, exReply)
  /\ UNCHANGED <<serverVars, aiEnabled, analysisCache, heap, files, reqs, lastWriter, mutated,
                 keyArgs, keyRet, exText, exReply, callArgs, callRet>>

NextExtractor == AnalyzeResumeText

SpecExtractor == InitExtractor /\ [][NextExtractor]_vars

\* C2: when the generative call fails, analyzeResumeText returns success with
\* an analysis that has every field of the enhanced one, the score, grade and
\* feedback of fallbackAnalysis, and aiEnhanced set to false.
C2_FallbackMarkedNotEnhanced ==
  (exRet # None /\ AIFails(exReply)) =>
    /\ exRet.success
    /\ DOMAIN exRet.analysis = DOMAIN Enhanced(exRet.analysis, <<>>)
    /\ exRet.analysis.aiEnhanced = FALSE

\* ------------------------------------------------------------------ buildCacheKey alone
\* the tokens of the texts handed to buildCacheKey
KeyAlphabet == {"a", " ", "|", "general"}

KeyTexts == SeqsUpTo(KeyAlphabet, MaxKeyLen)

\* the (text, analysisMode, jobDescription) triples handed to buildCacheKey
KeyTriples ==
  {[text |-> t, analysisMode |-> m, jobDescription |-> j] :
     t \in KeyTexts, m \in AnalysisModes, j \in KeyTexts}

\* the triple of the claim: normalized text, mode, normalized job description
NormalizedTriple(a) ==
  <<Normalize(a.text), a.analysisMode, Normalize(a.jobDescription)>>

InitKey ==
  /\ AnalyzerInit
  /\ db = None
  /\ inflight = None
  /\ keyArgs \in KeyTriples
  /\ keyRet = None
  /\ exText = None
  /\ exReply = None
  /\ exRet = None
  /\ callArgs = None
  /\ callRet = None

\* one call of buildCacheKey
BuildKey ==
  /\ keyRet = None
  /\ keyRet' = buildCacheKey(keyArgs.text, keyArgs.analysisMode, keyArgs.jobDescription)
  /\ UNCHANGED <<serverVars, aiEnabled, analysisCache, heap, files, reqs, lastWriter, mutated,
                 keyArgs, exText, exReply, exRet, callArgs, callRet>>

NextKey == BuildKey

SpecKey == InitKey /\ [][NextKey]_vars

\* C7: two calls whose normalized triples differ in a field return different
\* keys, also when a field contains the separator; equal triples return equal
\* keys.
C7_DistinctTriplesDistinctKeys ==
  keyRet # None =>
    \A b \in KeyTriples :
      (NormalizedTriple(b) = NormalizedTriple(keyArgs))
        <=> (buildCacheKey(b.text, b.analysisMode, b.jobDescription) = keyRet)

\* ------------------------------------------------------------------ claims
\* analyzeResumeAdvanced has returned to the handler of request r
Returned(r) == reqs[r].result # None

Succeeded(r) == Returned(r) /\ reqs[r].result.success

\* the request carries 'job-specific' and a missing or blank job description
BlankJobSpecific(r) ==
  reqs[r].hasFile /\ reqs[r].mode = "job-specific" /\ Trim(reqs[r].jd) = <<>>

\* request r has called analysisCache.set
HasPut(r) == \E k \in DOMAIN lastWriter : lastWriter[k] = r

\* what JSON.parse(JSON.stringify(x)) shows, for what x shows
JsonImage(deep) == Restrict(deep, {f \in DOMAIN deep : deep[f] # <<"value", Undefined>>})

\* the objects reachable from a top-level analysis object
Reach(h, top) == {top} \cup {h[top][f].id : f \in {g \in DOMAIN h[top] : IsRef(h[top][g])}}

\* C1: whenever the file decoded, the call reports success (an AI failure
\* degrades to the heuristic result instead of { success: false, error }).
C1_AIFailureDegrades ==
  \A r \in Reqs : (reqs[r].decoded /\ Returned(r)) => reqs[r].result.success

\* C3: once the handler of a request that carried a file has finished, the
\* temporary file is gone, whatever path the handler took.
C3_TempFileRemoved ==
  \A r \in Reqs : (reqs[r].hasFile /\ reqs[r].pc = "done") => r \notin files

\* C3 witness: one request was served from the cache and answered 200, the
\* other computed the analysis and then threw while responding, so that the
\* catch block answered 500; both files are gone
C3_Witness ==
  \E r, q \in Reqs :
    /\ reqs[r].pc = "done" /\ reqs[r].cacheHit /\ reqs[r].resp = 200
    /\ reqs[q].pc = "done" /\ Succeeded(q) /\ reqs[q].resp = 500
    /\ files = {}

\* C4: a job-specific request without a job description is rejected at once:
\* nothing is decoded, no AI call is made, nothing is cached, and the call does
\* not succeed.
C4_BlankJobDescriptionRejected ==
  \A r \in Reqs :
    BlankJobSpecific(r) =>
      /\ ~reqs[r].decoded
      /\ reqs[r].aiCalls = 0
      /\ ~HasPut(r)
      /\ ~Succeeded(r)

\* C5: a request whose file cannot be decoded ends in { success: false, error }
\* right after the decoding step, without heuristic result, without AI call and
\* without cache write.
C5_DecodeFailureAborts ==
  \A r \in Reqs :
    (reqs[r].hasFile /\ ~Decodes(reqs[r].doc) /\ reqs[r].pc \notin {"idle", "decoding"}) =>
      /\ Returned(r)
      /\ ~reqs[r].result.success
      /\ reqs[r].returned = None
      /\ reqs[r].layout = None
      /\ reqs[r].aiCalls = 0
      /\ ~HasPut(r)

\* C5 witness: a decode failure was answered while the cache held an entry
C5_Witness ==
  \E r \in Reqs :
    /\ reqs[r].hasFile /\ ~Decodes(reqs[r].doc) /\ reqs[r].pc = "done"
    /\ DOMAIN analysisCache # {}

\* C6: no object handed to a caller is reachable from the cache, and whatever
\* callers write to the objects they were handed, every cache entry still shows
\* the JSON image of the analysis its last writer computed.
C6_CacheNotAliased ==
  /\ \A r \in Reqs : \A k \in DOMAIN analysisCache :
       Succeeded(r) =>
         Reach(heap, reqs[r].result.analysis) \cap Reach(heap, analysisCache[k]) = {}
  /\ \A k \in DOMAIN analysisCache :
       DeepVal(heap, analysisCache[k]) = JsonImage(reqs[lastWriter[k]].returned)

\* C6 witness: a caller wrote to a returned object, and a later call was served
\* from the cache
C6_Witness ==
  \E r \in Reqs : reqs[r].cacheHit /\ reqs[r].hitAfterMutation /\ mutated # {}

\* C8: once every call has returned, each cache entry is the analysis of the
\* call whose set() ran last for that key, and every call that computed an
\* analysis returned the one built from its own AI reply.
C8_LastWriterWins ==
  (\A r \in Reqs : reqs[r].pc \in {"cleanup", "cleanupAfterThrow", "done"}) =>
    /\ \A k \in DOMAIN analysisCache :
         /\ reqs[lastWriter[k]].cacheKey = k
         /\ DeepVal(heap, analysisCache[k]) = JsonImage(reqs[lastWriter[k]].returned)
    /\ \A r \in Reqs :
         (Succeeded(r) /\ ~reqs[r].cacheHit) =>
           LET own == Payload(r, reqs[r], reqs[r].aiAnalysis)
           IN  reqs[r].returned = DeepVal(own, ObjId(r, "ret", "top"))

\* C8 witness: two calls for one fingerprint both missed the cache, both called
\* the AI collaborator, and computed different analyses
C8_Witness ==
  \E r, q \in Reqs :
    /\ r # q
    /\ reqs[r].pc = "done" /\ reqs[q].pc = "done"
    /\ Succeeded(r) /\ Succeeded(q)
    /\ ~reqs[r].cacheHit /\ ~reqs[q].cacheHit
    /\ reqs[r].cacheKey = reqs[q].cacheKey
    /\ reqs[r].aiCalls = 1 /\ reqs[q].aiCalls = 1
    /\ reqs[r].aiAnalysis # reqs[q].aiAnalysis

\* a step that creates or replaces the entry of key k, or changes what it shows
EntryChanges(k) ==
  \/ k \notin DOMAIN analysisCache
  \/ analysisCache'[k] # analysisCache[k]
  \/ DeepVal(heap', analysisCache'[k]) # DeepVal(heap, analysisCache[k])

\* C9: a step changes a cache entry only by the set() that ends a successful
\* analysis of that key; no entry is removed and none is modified in place.
C9_OnlyPutChangesCache ==
  [][/\ DOMAIN analysisCache \subseteq DOMAIN analysisCache'
     /\ \A k \in DOMAIN analysisCache' :
          EntryChanges(k) =>
            \E r \in Reqs :
              /\ reqs[r].pc = "aiwait"
              /\ reqs[r].cacheKey = k
              /\ reqs'[r].result # None
              /\ reqs'[r].result.success
              /\ analysisCache'[k] = ObjId(r, "stored", "top")]_vars

\* C9 witness: a call missed the cache, another call cached its analysis under
\* the same key, and then the first call failed in the AI step
C9_Witness ==
  \E r, q \in Reqs :
    /\ reqs[r].aiCalls = 1 /\ Returned(r) /\ ~reqs[r].result.success
    /\ reqs[r].cacheKey \in DOMAIN analysisCache
    /\ lastWriter[reqs[r].cacheKey] = q

\* the analysis computed by request r shows the heuristic sub-results unchanged
HeuristicsAttached(r) ==
  \A f \in {"layout", "fonts", "content", "scoring"} :
    reqs[r].returned[f] = <<"object", reqs[r][f]>>

\* request r is job-specific and carries a job description
JobSpecific(r) == reqs[r].mode = "job-specific" /\ Trim(reqs[r].jd) # <<>>

C11_JobMatchOnlyJobSpecific ==
  \A r \in Reqs :
    (Succeeded(r) /\ reqs[r].mode = "general") =>
      /\ reqs[r].returned["jobMatch"] = <<"value", Null>>
      /\ reqs[r].jobMatch \in {None, Null}

\* ------------------------------------------------------------------ the scorers alone
\* most pages of a scored document
MaxPages == 2

\* the passages a scored text is put together from, in reading order: a
\* summary with a long line, dated experience, education, skills, contact
\* details, three dashed lines, a line of technical keywords
ScoreBlocks ==
  <<<<"Summary", "\n", "prose", "\n">>,
    <<"Experience", " ", "2019", " ", "2022", "\n">>,
    <<"Education", "\n", "Bachelor", "\n">>,
    <<"Skills", ":", " ", "python", ",", " ", "docker", "\n">>,
    <<"john@x.com", " ", "555-123-4567", "\n">>,
    <<"-", " ", "built", "\n", "-", " ", "built", "\n", "-", " ", "built", "\n">>,
    <<"javascript", " ", "java", " ", "react", " ", "mongodb", " ", "kubernetes", " ",
      "agile", " ", "scrum", " ", "leadership", " ", "management", " ", "analysis", " ",
      "development", " ", "design", " ", "implementation", "\n">>>>

\* the text made of the passages chosen
ScoreText(chosen) ==
  Concat([i \in DOMAIN ScoreBlocks |-> IF i \in chosen THEN ScoreBlocks[i] ELSE <<>>])

\* what extractDetailedPDFInfo resolves to for a file of that text and that
\* many pages
PdfInfoOf(text, pages) ==
  [text |-> text, pages |-> pages, fonts |-> extractFonts(pages),
   layout |-> extractLayoutInfo(pages)]

\* steps 2 to 4 and 6 of analyzeResumeAdvanced
ScoreOf(pdfInfo) ==
  LET layoutAnalysis == analyzeLayoutStructure(pdfInfo)
      fontAnalysis == analyzeFontsAndFormatting(pdfInfo)
      contentAnalysis == analyzeContentQuality(pdfInfo.text)
  IN  [layout |-> layoutAnalysis, fonts |-> fontAnalysis, content |-> contentAnalysis,
       scoring |-> calculateAdvancedATSScore(layoutAnalysis, fontAnalysis, contentAnalysis)]

InitScore ==
  /\ AnalyzerInit
  /\ db = None
  /\ inflight = None
  /\ keyArgs = None
  /\ keyRet = None
  /\ exText = None
  /\ exReply = None
  /\ exRet = None
  /\ \E chosen \in SUBSET DOMAIN ScoreBlocks, pages \in 0..MaxPages :
       callArgs = [text |-> ScoreText(chosen), pages |-> pages]
  /\ callRet = None

\* the scorers run on one decoded document
ScoreDocument ==
  /\ callRet = None
  /\ callRet' = ScoreOf(PdfInfoOf(callArgs.text, callArgs.pages))
  /\ UNCHANGED <<serverVars, aiEnabled, analysisCache, heap, files, reqs, lastWriter, mutated,
                 keyArgs, keyRet, exText, exReply, exRet, callArgs>>

NextScore == ScoreDocument

SpecScore == InitScore /\ [][NextScore]_vars

\* C12: the breakdown of a scored document has layout in 0..75, fonts in
\* 0..55, content in 0..100, each the score of its scorer, and total equal to
\* the smaller of their sum and 100.
C12_ScoreBreakdownRanges ==
  callRet # None =>
    /\ callRet.scoring.layout = callRet.layout.score
    /\ callRet.scoring.fonts = callRet.fonts.score
    /\ callRet.scoring.content = callRet.content.score
    /\ callRet.scoring.layout \in 0..75
    /\ callRet.scoring.fonts \in 0..55
    /\ callRet.scoring.content \in 0..100
    /\ callRet.scoring.total \in 0..100
    /\ callRet.scoring.total =
         IF callRet.layout.score + callRet.fonts.score + callRet.content.score < 100
           THEN callRet.layout.score + callRet.fonts.score + callRet.content.score
         ELSE 100

\* C12 witness: a document whose content scores the full 100, so that the sum
\* of the three scores is above 100
C12_Witness ==
  /\ callRet # None
  /\ callRet.content.score = 100
  /\ callRet.layout.score + callRet.fonts.score + callRet.content.score > 100

\* ------------------------------------------------------------------ grades
\* the comparison of a grade band: score >= bound
getGrade_Exclusive(score) ==
  IF score > 90 THEN "A+"
  ELSE IF score > 80 THEN "A"
  ELSE IF score > 70 THEN "B+"
  ELSE IF score > 60 THEN "B"
  ELSE IF score > 50 THEN "C+"
  ELSE IF score > 40 THEN "C"
  ELSE "D"

getGrade(score) ==
  IF score >= 90 THEN "A+"
  ELSE IF score >= 80 THEN "A"
  ELSE IF score >= 70 THEN "B+"
  ELSE IF score >= 60 THEN "B"
  ELSE IF score >= 50 THEN "C+"
  ELSE IF score >= 40 THEN "C"
  ELSE "D"

\* C13: an analysis handed to a caller with a numeric atsScore carries the
\* seven-band grade of that score.
C13_GradeOfOwnScore ==
  \A r \in Reqs :
    (/\ Succeeded(r)
     /\ "atsScore" \in DOMAIN reqs[r].returned
     /\ reqs[r].returned["atsScore"][2].t = "number") =>
      /\ "grade" \in DOMAIN reqs[r].returned
      /\ reqs[r].returned["grade"]
           = <<"value", Str(getGrade(reqs[r].returned["atsScore"][2].n))>>

\* the integer scores a grade is asked for
GradedScores == 0..100

InitGrade ==
  /\ AnalyzerInit
  /\ db = None
  /\ inflight = None
  /\ keyArgs = None
  /\ keyRet = None
  /\ exText = None
  /\ exReply = None
  /\ exRet = None
  /\ \E score \in GradedScores : callArgs = [score |-> score]
  /\ callRet = None

\* one score graded by getGrade and by the bands of fallbackAnalysis
GradeScore ==
  /\ callRet = None
  /\ callRet' = [sevenBand |-> getGrade(callArgs.score),
                 fourBand |-> FallbackGrade(callArgs.score)]
  /\ UNCHANGED <<serverVars, aiEnabled, analysisCache, heap, files, reqs, lastWriter, mutated,
                 keyArgs, keyRet, exText, exReply, exRet, callArgs>>

NextGrade == GradeScore

SpecGrade == InitGrade /\ [][NextGrade]_vars

\* C14: getGrade gives A+ on 90..100, A on 80..89, B+ on 70..79, B on 60..69,
\* C+ on 50..59, C on 40..49 and D below; the fallback bands give A on 80..100,
\* B on 60..79, C on 40..59 and D below.
C14_GradeBandsInclusive ==
  callRet # None =>
    /\ callRet.sevenBand =
         CASE callArgs.score \in 90..100 -> "A+"
           [] callArgs.score \in 80..89 -> "A"
           [] callArgs.score \in 70..79 -> "B+"
           [] callArgs.score \in 60..69 -> "B"
           [] callArgs.score \in 50..59 -> "C+"
           [] callArgs.score \in 40..49 -> "C"
           [] callArgs.score \in 0..39 -> "D"
    /\ callRet.fourBand =
         CASE callArgs.score \in 80..100 -> "A"
           [] callArgs.score \in 60..79 -> "B"
           [] callArgs.score \in 40..59 -> "C"
           [] callArgs.score \in 0..39 -> "D"

\* C14 witness: the score 80, on the boundary of both schemes, graded A by both
C14_Witness ==
  /\ callRet # None
  /\ callArgs.score = 80
  /\ callRet.sevenBand = "A"
  /\ callRet.fourBand = "A"

\* ------------------------------------------------------------------ job match alone
\* The job match of one request on its own: analyzeJobMatch on a resume text and
\* a job description, then the jobMatch that analysisPayload carries.

\* the sentence that states n years of experience
YearsSentence(n) ==
  <<IF n = 3 THEN "3" ELSE "5", " ", "years", " ", "of", " ", "experience", "\n">>

\* the sentences for a sequence of stated years, in that order
StatedYears(years) == Concat([i \in DOMAIN years |-> YearsSentence(years[i])])

\* the years a job description states, in text order
JobYears == {<<>>, <<3>>, <<5, 3>>}

\* the years a resume states, in text order
ResumeYears == {<<>>, <<5>>, <<3, 5>>}

\* the passages a job description is made of
JobBlocks ==
  <<<<"Skills", ":", " ", "python", ",", " ", "docker", "\n">>,
    <<"kubernetes", " ", "agile", " ", "scrum", " ", "leadership", " ", "management", " ",
      "analysis", " ", "development", " ", "design", " ", "implementation", " ",
      "frontend", " ", "backend", " ", "fullstack", "\n">>,
    <<"java", "\n">>,
    <<"javascript", "\n">>>>

\* the passages a resume is made of
ResumeBlocks ==
  <<<<"Skills", ":", " ", "python", "\n">>,
    <<"javascript", "\n">>,
    <<"kubernetes", " ", "agile", "\n">>,
    <<"Skills", ":", " ", "docker", ",", " ", "sql", "\n">>>>

\* the text that states the years and holds the passages chosen
MatchText(years, blocks, chosen) ==
  StatedYears(years)
    \o Concat([i \in DOMAIN blocks |-> IF i \in chosen THEN blocks[i] ELSE <<>>])

\* the replies of the collaborator that performAIAnalysis parses
ParsedReplies == {outcome.parsed : outcome \in {o \in AIOutcomes : o.ok}}

\* the job match computed and the one analysisPayload.analysis carries
MatchOutcome(aiAnalysis, jobMatch) ==
  [jobMatch |-> jobMatch, reported |-> PayloadJobMatchContent(aiAnalysis, jobMatch)]

InitJobMatch ==
  /\ AnalyzerInit
  /\ db = None
  /\ inflight = None
  /\ keyArgs = None
  /\ keyRet = None
  /\ exText = None
  /\ exReply = None
  /\ exRet = None
  /\ \E resumeYears \in ResumeYears, resumeChosen \in SUBSET DOMAIN ResumeBlocks,
        jobYears \in JobYears, jobChosen \in SUBSET DOMAIN JobBlocks,
        parsed \in ParsedReplies :
       callArgs = [resumeText |-> MatchText(resumeYears, ResumeBlocks, resumeChosen),
                   jobDescription |-> MatchText(jobYears, JobBlocks, jobChosen),
                   resumeYears |-> resumeYears,
                   jobYears |-> jobYears,
                   aiAnalysis |-> parsed]
  /\ callRet = None

\* step 3 of analyzeResumeAdvanced in job-specific mode, and the jobMatch of
\* the payload once the reply of the collaborator is parsed
MatchJob ==
  /\ callRet = None
  /\ callRet' = MatchOutcome(callArgs.aiAnalysis,
                             analyzeJobMatch(callArgs.resumeText, callArgs.jobDescription))
  /\ UNCHANGED <<serverVars, aiEnabled, analysisCache, heap, files, reqs, lastWriter, mutated,
                 keyArgs, keyRet, exText, exReply, exRet, callArgs>>

NextJobMatch == MatchJob

SpecJobMatch == InitJobMatch /\ [][NextJobMatch]_vars

\* C15: the overallMatch that analyzeJobMatch returns is the rounded mean of the
\* keywordMatch, skillsMatch and experienceMatch of the same result.
C15_OverallIsRoundedMean ==
  callRet # None =>
    callRet.jobMatch.overallMatch
      = Round(callRet.jobMatch.keywordMatch + callRet.jobMatch.skillsMatch
                + callRet.jobMatch.experienceMatch, 3)

C17_MatchPercentages ==
  callRet # None =>
    LET jobKeywords == extractKeywords(callArgs.jobDescription)
        matchedKeywords == callRet.jobMatch.matchedKeywords
        jobSkills == extractSkills(callArgs.jobDescription)
        matchedSkills == MatchedAgainst(jobSkills, extractSkills(callArgs.resumeText))
    IN  /\ callRet.jobMatch.keywordMatch \in 0..100
        /\ callRet.jobMatch.keywordMatch
             = IF Len(jobKeywords) = 0 THEN 0
               ELSE Round(Len(matchedKeywords) * 100, Len(jobKeywords))
        /\ callRet.jobMatch.skillsMatch \in 0..100
        /\ callRet.jobMatch.skillsMatch
             = IF Len(jobSkills) = 0 THEN 0
               ELSE Round(Len(matchedSkills) * 100, Len(jobSkills))

\* C17 witness: a job description without keyword and without skill, compared
\* with a resume that has both
C17_Witness ==
  /\ callRet # None
  /\ extractKeywords(callArgs.jobDescription) = <<>>
  /\ extractSkills(callArgs.jobDescription) = <<>>
  /\ extractKeywords(callArgs.resumeText) # <<>>
  /\ extractSkills(callArgs.resumeText) # <<>>
  /\ callRet.jobMatch.keywordMatch = 0
  /\ callRet.jobMatch.skillsMatch = 0

\* C18: missingKeywords holds the first ten, or all when fewer, of the job
\* keywords that neither contain nor are contained in any resume keyword, in the
\* order of the job keywords; it has no element of matchedKeywords.
C18_MissingKeywords ==
  callRet # None =>
    LET jobKeywords == extractKeywords(callArgs.jobDescription)
        resumeKeywords == extractKeywords(callArgs.resumeText)
        Unmatched(keyword) ==
          \A i \in DOMAIN resumeKeywords :
            /\ ~StrIncludes(resumeKeywords[i], keyword)
            /\ ~StrIncludes(keyword, resumeKeywords[i])
        unmatched == SelectSeq(jobKeywords, Unmatched)
        missing == callRet.jobMatch.missingKeywords
        matched == callRet.jobMatch.matchedKeywords
    IN  /\ Len(missing) <= 10
        /\ Len(missing) = IF Len(unmatched) < 10 THEN Len(unmatched) ELSE 10
        /\ \A i \in DOMAIN missing : missing[i] = unmatched[i]
        /\ \A i \in DOMAIN missing, j \in DOMAIN matched : missing[i] # matched[j]

\* C18 witness: more than ten job keywords have no match, one job keyword is
\* matched by a resume keyword that contains it and one by a resume keyword it
\* contains
C18_Witness ==
  /\ callRet # None
  /\ Len(callRet.jobMatch.jobKeywords) - Len(callRet.jobMatch.matchedKeywords) > 10
  /\ Len(callRet.jobMatch.missingKeywords) = 10
  /\ \E i \in DOMAIN callRet.jobMatch.matchedKeywords :
       callRet.jobMatch.matchedKeywords[i] = <<"java">>
  /\ \E i \in DOMAIN callRet.jobMatch.matchedKeywords :
       callRet.jobMatch.matchedKeywords[i] = <<"python", ",">>
  /\ \A i \in DOMAIN callRet.jobMatch.resumeKeywords :
       callRet.jobMatch.resumeKeywords[i] \notin {<<"java">>, <<"python", ",">>}

\* ------------------------------------------------------------------ a section added
\* Both heuristic scores of a text, before and after the lines of a section it
\* lacks are inserted at a line position.

\* analysis.atsScore as fallbackAnalysis assigns it, or the exception that
\* extractExperience throws before
FallbackScore(text) ==
  LET experience == extractExperience(text)
  IN  IF ~experience.ok THEN experience
      ELSE Value(calculateATSScore([sections |-> identifySections(text),
                                    contactInfo |-> extractContactInfo(text),
                                    experience |-> experience.value,
                                    education |-> extractEducation(text),
                                    skills |-> Extractor_extractSkills(text)]).score)

\* scoring.total of analyzeResumeAdvanced for a file of that text and that many pages
AdvancedTotal(text, pages) == ScoreOf(PdfInfoOf(text, pages)).scoring.total

\* lines.join('\n')
JoinLines(lines) ==
  Concat([i \in DOMAIN lines |-> IF i = 1 THEN lines[i] ELSE <<"\n">> \o lines[i]])

\* the resumes, as lines, to which a section is added
BaseResumes ==
  {<<<<"Experience">>, <<"2019", " ", "2022">>>>,
   <<<<"Experience">>, <<"Senior", " ", "Developer">>, <<"Acme", " ", "Inc">>, <<"2019">>,
     <<"john@x.com", " ", "555-123-4567">>>>,
   <<<<"Education">>, <<"Bachelor">>, <<"State", " ", "University">>, <<"2022">>>>,
   <<<<"Summary">>, <<"prose">>,
     <<"Experience">>, <<"Senior", " ", "Developer">>, <<"Acme", " ", "Inc">>, <<"2019">>,
     <<"Education">>, <<"Bachelor">>, <<"State", " ", "University">>, <<"2022">>,
     <<"john@x.com", " ", "555-123-4567">>>>}

\* the sections added: the header line first, then the content lines
AddedSections ==
  {<<<<"Skills">>,
     <<"python", ",", " ", "docker", ",", " ", "java", ",", " ", "react", ",", " ", "kubernetes">>>>,
   <<<<"Skills">>, <<"-", " ", "python">>, <<"-", " ", "docker">>, <<"-", " ", "java">>,
     <<"-", " ", "react">>, <<"-", " ", "kubernetes">>>>,
   <<<<"Education">>, <<"Bachelor">>, <<"State", " ", "University">>, <<"2022">>>>,
   <<<<"Summary">>, <<"prose">>>>,
   <<<<"Projects">>, <<"-", " ", "built">>>>}

\* the text has no line that names the section of that header line
LacksSection(lines, header) ==
  \A i \in DOMAIN lines : ~StrIncludes(toLowerCase(lines[i]), toLowerCase(header))

\* the lines of section inserted after the first position lines of base
InsertLines(base, section, position) ==
  SubSeq(base, 1, position) \o section \o SubSeq(base, position + 1, Len(base))

InitInsert ==
  /\ AnalyzerInit
  /\ db = None
  /\ inflight = None
  /\ keyArgs = None
  /\ keyRet = None
  /\ exText = None
  /\ exReply = None
  /\ exRet = None
  /\ \E base \in BaseResumes, section \in AddedSections, pages \in 0..MaxPages :
       /\ LacksSection(base, section[1])
       /\ \E position \in 0..Len(base) :
            callArgs = [base |-> base, section |-> section, position |-> position,
                        pages |-> pages]
  /\ callRet = None

\* both schemes score the text as it is and with the section inserted
ScoreBoth ==
  /\ callRet = None
  /\ LET before == JoinLines(callArgs.base)
         after == JoinLines(InsertLines(callArgs.base, callArgs.section, callArgs.position))
     IN  callRet' = [fallbackBefore |-> FallbackScore(before),
                     fallbackAfter |-> FallbackScore(after),
                     advancedBefore |-> AdvancedTotal(before, callArgs.pages),
                     advancedAfter |-> AdvancedTotal(after, callArgs.pages)]
  /\ UNCHANGED <<serverVars, aiEnabled, analysisCache, heap, files, reqs, lastWriter, mutated,
                 keyArgs, keyRet, exText, exReply, exRet, callArgs>>

NextInsert == ScoreBoth

SpecInsert == InitInsert /\ [][NextInsert]_vars

\* C19: with the lines of a section the text lacks inserted at any line
\* position, neither the five-factor score nor the total of layout, fonts and
\* content is lower than for the text as it was.
C19_InsertionMonotonic ==
  callRet # None =>
    /\ (callRet.fallbackBefore.ok /\ callRet.fallbackAfter.ok)
         => callRet.fallbackAfter.value >= callRet.fallbackBefore.value
    /\ callRet.advancedAfter >= callRet.advancedBefore

\* C20: a request calls generateContent at most once, and not at all when it is
\* served from the cache or its file cannot be decoded; once the call has
\* settled the request holds its outcome, the parsed reply or the failure of
\* the AI analysis.
C20_NoRetry ==
  \A r \in Reqs :
    /\ reqs[r].aiCalls <= 1
    /\ reqs[r].cacheHit => reqs[r].aiCalls = 0
    /\ ~reqs[r].decoded => reqs[r].aiCalls = 0
    /\ (reqs[r].aiCalls = 1 /\ reqs[r].pc # "aiwait") =>
         /\ Returned(r)
         /\ reqs[r].result.success => reqs[r].aiAnalysis # None
         /\ ~reqs[r].result.success =>
              /\ reqs[r].aiAnalysis = None
              /\ reqs[r].result.error \in {"AI analysis failed: AI proxy returned an error",
                                           "AI analysis failed: Failed to parse AI response"}

\* C20 witness: one request was answered after its single call failed on a
\* reply without JSON, another succeeded after its single call
C20_Witness ==
  \E r, q \in Reqs :
    /\ reqs[r].pc = "done"
    /\ reqs[r].aiCalls = 1
    /\ ~reqs[r].result.success
    /\ reqs[r].result.error = "AI analysis failed: Failed to parse AI response"
    /\ reqs[q].aiCalls = 1
    /\ Succeeded(q)

\* ------------------------------------------------------------------ reply alone
\* The JSON extraction of performAIAnalysis on its own: one reply text that
\* generateContent resolved to with success.

InitReply ==
  /\ AnalyzerInit
  /\ db = None
  /\ inflight = None
  /\ keyArgs = None
  /\ keyRet = None
  /\ exText = None
  /\ exReply = None
  /\ exRet = None
  /\ \E text \in ReplyTexts : callArgs = [text |-> text]
  /\ callRet = None

\* performAIAnalysis from the reply on: match, then JSON.parse
ParseReply ==
  /\ callRet = None
  /\ callRet' = AIOutcome([success |-> TRUE, text |-> callArgs.text])
  /\ UNCHANGED <<serverVars, aiEnabled, analysisCache, heap, files, reqs, lastWriter, mutated,
                 keyArgs, keyRet, exText, exReply, exRet, callArgs>>

NextReply == ParseReply

SpecReply == InitReply /\ [][NextReply]_vars

\* C21: a reply that holds a well-formed JSON object, whatever precedes or
\* follows it, is parsed, and the result is the first such object.
C21_FirstObjectParsed ==
  callRet # None =>
    LET text == callArgs.text
        objects == {p \in (1..Len(text)) \X (1..Len(text)) :
                      p[1] < p[2] /\ JsonValid(SubSeq(text, p[1], p[2]))}
    IN  objects # {} =>
          LET first == CHOOSE p \in objects : \A q \in objects : p[1] <= q[1]
          IN  /\ callRet.ok
              /\ callRet.parsed = JsonParse(SubSeq(text, first[1], first[2]))

\* ------------------------------------------------------------------ line scans alone
\* extractExperience and extractEducation on one text, line by line: each step
\* hands the next line of the text to both forEach callbacks, and the last step
\* is what follows the two loops.
MaxLines == 5

\* the lines a text is made of
ScanLines ==
  {<<"Experience">>, <<"Education">>, <<"Skills">>, <<"Senior", " ", "Developer">>,
   <<"Acme", " ", "Inc">>, <<"2019">>, <<"-", " ", "built">>, <<"(bullet)", " ", "built">>,
   <<"Bachelor">>}

\* the locals of both functions before the first line. History: lines (the
\* lines read), expStarted and eduStarted (the title or degree of every entry
\* started, in order), expAtExit and eduAtExit (the open entry, with its number,
\* as it was when its section was left).
ScanStart ==
  [lines |-> <<>>,
   done |-> FALSE,
   exp |-> [inExperienceSection |-> FALSE, currentJob |-> None, experience |-> <<>>,
            thrown |-> Value(0)],
   edu |-> [inEducationSection |-> FALSE, currentEdu |-> None, education |-> <<>>],
   expStarted |-> <<>>,
   expAtExit |-> {},
   eduStarted |-> <<>>,
   eduAtExit |-> {},
   experience |-> None,
   education |-> None]

\* the scan after one line, exp and edu being the locals after the callbacks
ScanStep(s, line, exp, edu) ==
  [s EXCEPT
     !.lines = Append(@, line),
     !.exp = exp,
     !.edu = edu,
     !.expStarted =
       IF (s.exp.currentJob = None /\ exp.currentJob # None)
            \/ Len(exp.experience) > Len(s.exp.experience)
         THEN Append(@, exp.currentJob.title) ELSE @,
     !.expAtExit =
       IF s.exp.inExperienceSection /\ ~exp.inExperienceSection /\ s.exp.currentJob # None
         THEN @ \cup {<<Len(s.expStarted), s.exp.currentJob>>} ELSE @,
     !.eduStarted =
       IF (s.edu.currentEdu = None /\ edu.currentEdu # None)
            \/ Len(edu.education) > Len(s.edu.education)
         THEN Append(@, edu.currentEdu.degree) ELSE @,
     !.eduAtExit =
       IF s.edu.inEducationSection /\ ~edu.inEducationSection /\ s.edu.currentEdu # None
         THEN @ \cup {<<Len(s.eduStarted), s.edu.currentEdu>>} ELSE @]

\* what extractExperience returns after the loop, or the exception of the loop
ExperienceResult(st) ==
  IF ~st.thrown.ok THEN st.thrown
  ELSE Value(IF st.currentJob # None THEN Append(st.experience, st.currentJob)
             ELSE st.experience)

\* what extractEducation returns after the loop
EducationResult(st) ==
  IF st.currentEdu # None THEN Append(st.education, st.currentEdu) ELSE st.education

InitScan ==
  /\ AnalyzerInit
  /\ db = None
  /\ inflight = None
  /\ keyArgs = None
  /\ keyRet = None
  /\ exText = None
  /\ exReply = None
  /\ exRet = None
  /\ callArgs = None
  /\ callRet = ScanStart

\* the forEach callbacks of both functions on the next line of the text
ScanLine ==
  /\ ~callRet.done
  /\ Len(callRet.lines) < MaxLines
  /\ \E line \in ScanLines :
       callRet' = ScanStep(callRet, line, ExperienceLine(callRet.exp, line),
                           EducationLine(callRet.edu, line))
  /\ UNCHANGED <<serverVars, aiEnabled, analysisCache, heap, files, reqs, lastWriter, mutated,
                 keyArgs, keyRet, exText, exReply, exRet, callArgs>>

\* the text ends: the open entries are pushed and the lists returned
ScanEnd ==
  /\ ~callRet.done
  /\ callRet' = [callRet EXCEPT !.done = TRUE,
                                !.experience = ExperienceResult(callRet.exp),
                                !.education = EducationResult(callRet.edu)]
  /\ UNCHANGED <<serverVars, aiEnabled, analysisCache, heap, files, reqs, lastWriter, mutated,
                 keyArgs, keyRet, exText, exReply, exRet, callArgs>>

NextScan == ScanLine \/ ScanEnd

SpecScan == InitScan /\ [][NextScan]_vars

\* C22: the lists returned hold every entry started, once and in start order,
\* and an entry that was open when its section was left is in the list as it
\* was at that moment.
C22_EntriesFlushedAtExit ==
  callRet.done =>
    /\ callRet.experience.ok =>
         /\ Len(callRet.experience.value) = Len(callRet.expStarted)
         /\ \A i \in DOMAIN callRet.expStarted :
              callRet.experience.value[i].title = callRet.expStarted[i]
         /\ \A p \in callRet.expAtExit : callRet.experience.value[p[1]] = p[2]
    /\ Len(callRet.education) = Len(callRet.eduStarted)
    /\ \A i \in DOMAIN callRet.eduStarted :
         callRet.education[i].degree = callRet.eduStarted[i]
    /\ \A p \in callRet.eduAtExit : callRet.education[p[1]] = p[2]

\* C23: extractExperience returns, for every text, a list of entries that carry
\* title, company, duration and description; a line that starts with a bullet
\* or a dash inside the experience section is appended to the description of
\* the open entry, and changes nothing and throws nothing when no entry is open.
C23_ExperienceTotal ==
  /\ [](callRet.done =>
          /\ callRet.experience.ok
          /\ \A i \in DOMAIN callRet.experience.value :
               DOMAIN callRet.experience.value[i]
                 = {"title", "company", "duration", "description"})
  /\ [][(/\ Len(callRet'.lines) = Len(callRet.lines) + 1
         /\ callRet.exp.inExperienceSection
         /\ callRet'.lines[Len(callRet'.lines)]
              \in {<<"-", " ", "built">>, <<"(bullet)", " ", "built">>})
        => IF callRet.exp.currentJob # None
             THEN callRet'.exp.currentJob.description
                    = callRet.exp.currentJob.description
                        \o callRet'.lines[Len(callRet'.lines)] \o <<" ">>
             ELSE callRet'.exp = callRet.exp]_vars

\* ------------------------------------------------------------------ section headers alone
\* the header words a resume may carry, each on a line of its own
HeaderWords ==
  <<"Summary", "Experience", "Education", "Skills", "Projects", "certifications",
    "contact", "objective">>

\* the resume that carries the header words chosen
HeaderText(chosen) ==
  Concat([i \in DOMAIN HeaderWords |->
            IF i \in chosen THEN <<HeaderWords[i], "\n">> ELSE <<>>])

InitLayout ==
  /\ AnalyzerInit
  /\ db = None
  /\ inflight = None
  /\ keyArgs = None
  /\ keyRet = None
  /\ exText = None
  /\ exReply = None
  /\ exRet = None
  /\ \E chosen \in SUBSET DOMAIN HeaderWords, pages \in 0..MaxPages :
       callArgs = [text |-> HeaderText(chosen), pages |-> pages]
  /\ callRet = None

\* the layout scorer runs on one decoded document
AnalyzeLayout ==
  /\ callRet = None
  /\ callRet' = analyzeLayoutStructure(PdfInfoOf(callArgs.text, callArgs.pages))
  /\ UNCHANGED <<serverVars, aiEnabled, analysisCache, heap, files, reqs, lastWriter, mutated,
                 keyArgs, keyRet, exText, exReply, exRet, callArgs>>

NextLayout == AnalyzeLayout

SpecLayout == InitLayout /\ [][NextLayout]_vars

\* C24: the layout scorer sets hasProperHeaders exactly when at least four of
\* the six sections summary, experience, education, skills, projects and
\* certifications occur in the text, and the flag is worth 20 points of the
\* layout score.
C24_ProperHeaders ==
  callRet # None =>
    LET text == toLowerCase(callArgs.text)
        canonical == {"summary", "experience", "education", "skills", "projects",
                      "certifications"}
        others == (IF callRet.consistentFormatting THEN 15 ELSE 0)
                + (IF callRet.noTables THEN 10 ELSE 0)
                + (IF callRet.noGraphics THEN 10 ELSE 0)
                + (IF callRet.standardFormat THEN 10 ELSE 0)
                + (IF callRet.properSpacing THEN 10 ELSE 0)
    IN  /\ callRet.hasProperHeaders <=> CountIncluded(text, canonical) >= 4
        /\ callRet.score = others + (IF callRet.hasProperHeaders THEN 20 ELSE 0)

\* C25: the analysis a cache hit returns equals the analysis returned to the
\* call that populated the entry: the same fields, each with the same value,
\* whatever object the AI reply was.
C25_HitEqualsPopulating ==
  \A q \in Reqs :
    (reqs[q].cacheHit /\ reqs[q].returned # None) =>
      LET populating == lastWriter[reqs[q].cacheKey]
      IN  /\ DOMAIN reqs[q].returned = DOMAIN reqs[populating].returned
          /\ \A f \in DOMAIN reqs[q].returned :
               reqs[q].returned[f] = reqs[populating].returned[f]

\* ------------------------------------------------------------------ users and roles
\* The accounts of the User collection: "a" and "b".  Accounts are not deleted
\* here, so User.findById always finds the account a token names.
UserIds == {"a", "b"}

Roles == {"user", "manager", "admin"}

\* a request field that the client left out
Absent == "(absent)"

\* jwt.sign at login: the payload carries the role the account has at that
\* moment
IssueToken(users, id) == [userId |-> id, role |-> users[id].role]

\* authMiddleware for a request carrying a token this server signed: the
\* status it answers, or 0 and req.user when it calls next()
authMiddleware(users, token) ==
  LET decoded == token
      user == users[decoded.userId]
  IN  IF ~user.isActive
        THEN [status |-> 401, user |-> None]
      ELSE [status |-> 0,
            user |-> [userId |-> decoded.userId, role |-> decoded.role, user |-> user]]

\* roleMiddleware(allowedRoles): the status it answers, or 0 when it calls
\* next()
roleMiddleware(allowedRoles, reqUser) ==
  IF reqUser = None THEN 401
  ELSE IF reqUser.role \notin allowedRoles THEN 403
  ELSE 0

adminOnly == {"admin"}

managerAndAdmin == {"manager", "admin"}

InitAuth ==
  /\ AnalyzerInit
  /\ keyArgs = None
  /\ keyRet = None
  /\ exText = None
  /\ exReply = None
  /\ exRet = None
  /\ callArgs = None
  /\ callRet = None
  /\ db = [users |-> [id \in UserIds |->
                        [role |-> IF id = "a" THEN "admin" ELSE "user", isActive |-> TRUE]]]
  /\ inflight = [tokens |-> {}, roleChanged |-> {}, last |-> None]

\* POST /login with the right password: a token is signed and handed out
Login ==
  /\ \E id \in UserIds :
       /\ db.users[id].isActive
       /\ inflight' = [inflight EXCEPT !.tokens = @ \cup {IssueToken(db.users, id)},
                                       !.last = None]
  /\ UNCHANGED <<db, analyzerVars, pureVars>>

\* PUT /api/users/:id, behind authMiddleware; isActive is <<>> when the body
\* carries no boolean of that name
UpdateUser ==
  \E token \in inflight.tokens, id \in UserIds,
     role \in Roles \cup {Absent}, isActive \in {<<>>, <<TRUE>>, <<FALSE>>} :
    LET auth == authMiddleware(db.users, token)
        currentUser == auth.user
        updated == [role |-> IF role # Absent THEN role ELSE db.users[id].role,
                    isActive |-> IF isActive # <<>> THEN isActive[1] ELSE db.users[id].isActive]
    IN  /\ inflight' = [inflight EXCEPT
                          !.last = None,
                          !.roleChanged =
                            IF /\ auth.status = 0
                               /\ currentUser.role = "admin"
                               /\ updated.role # db.users[id].role
                              THEN @ \cup {id} ELSE @]
        /\ IF auth.status # 0 THEN UNCHANGED db
           ELSE IF currentUser.role = "user" /\ currentUser.userId # id THEN UNCHANGED db
           ELSE IF currentUser.role = "admin"
             THEN db' = [db EXCEPT !.users[id] = updated]
           ELSE UNCHANGED db
        /\ UNCHANGED <<analyzerVars, pureVars>>

\* a request to a route guarded by authMiddleware and then adminOnly or
\* managerAndAdmin
GuardedRequest ==
  \E token \in inflight.tokens, allowedRoles \in {adminOnly, managerAndAdmin} :
    LET auth == authMiddleware(db.users, token)
        status == IF auth.status # 0 THEN auth.status
                  ELSE roleMiddleware(allowedRoles, auth.user)
    IN  /\ inflight' = [inflight EXCEPT
                          !.last = [userId |-> token.userId,
                                    tokenRole |-> token.role,
                                    storedRole |-> db.users[token.userId].role,
                                    allowedRoles |-> allowedRoles,
                                    authenticated |-> auth.status = 0,
                                    afterChange |-> token.userId \in inflight.roleChanged,
                                    status |-> status]]
        /\ UNCHANGED <<db, analyzerVars, pureVars>>

NextAuth == Login \/ UpdateUser \/ GuardedRequest

SpecAuth == InitAuth /\ [][NextAuth]_vars

\* C26: a request that passed authMiddleware and reached an adminOnly or
\* managerAndAdmin guard is let through exactly when the role stored for its
\* user at that moment is one of the allowed roles, also when the role was
\* changed by an admin after the token was issued.
C26_StoredRoleDecides ==
  (inflight.last # None /\ inflight.last.authenticated) =>
    (inflight.last.status = 0 <=> inflight.last.storedRole \in inflight.last.allowedRoles)

\* ------------------------------------------------------------------ resumes
\* requests to the resume routes that may be under way at once
NumHandlers == 2

\* number of resumes the collection may hold
MaxResumes == 2

Handlers == 1..NumHandlers

\* the ids a request may name: the resumes stored so far are 1..Len(resumes)
ResumeIds == 1..MaxResumes

\* a handler that is not serving a request
IdleHandler == [pc |-> "idle"]

\* the query { _id: id, userId: userId } matches a stored resume
Owns(resumes, userId, id) == id \in DOMAIN resumes /\ resumes[id].userId = userId

\* Resume.updateMany({ userId, _id: { $ne: exceptId } }, { isDefault: false });
\* exceptId is 0 when the query has no _id condition
updateMany(resumes, userId, exceptId) ==
  [i \in DOMAIN resumes |->
     IF resumes[i].userId = userId /\ i # exceptId
       THEN [resumes[i] EXCEPT !.isDefault = FALSE]
     ELSE resumes[i]]

\* Resume.findOneAndUpdate({ _id: id, userId }, { isDefault, .. }): the
\* collection afterwards; nothing changes when no resume matches
findOneAndUpdate(resumes, userId, id, isDefault) ==
  IF Owns(resumes, userId, id)
    THEN [resumes EXCEPT ![id].isDefault = isDefault]
  ELSE resumes

\* new Resume({ userId, isDefault, .. }).save()
save(resumes, userId, isDefault) ==
  Append(resumes, [userId |-> userId, isDefault |-> isDefault])

\* resumes a handler under way is still going to insert
PendingCreates == Cardinality({h \in Handlers : inflight[h].pc = "write" /\ inflight[h].id = 0})

InitResume ==
  /\ AnalyzerInit
  /\ keyArgs = None
  /\ keyRet = None
  /\ exText = None
  /\ exReply = None
  /\ exRet = None
  /\ callArgs = None
  /\ callRet = None
  /\ db = [resumes |-> <<>>]
  /\ inflight = [h \in Handlers |-> IdleHandler]

\* the request of a handler as it stands after its first database call: the
\* call was updateMany when isDefault is set, and the write itself otherwise
Started(kind, userId, id, isDefault, okStatus) ==
  [pc |-> IF isDefault THEN "write" ELSE "done",
   kind |-> kind, userId |-> userId, id |-> id, isDefault |-> isDefault,
   status |-> IF isDefault THEN 0
              ELSE IF id = 0 \/ Owns(db.resumes, userId, id) THEN okStatus
              ELSE 404]

\* a request without name or email is answered 400 before any database call
Rejected(kind, userId, id) ==
  [pc |-> "done", kind |-> kind, userId |-> userId, id |-> id, isDefault |-> FALSE,
   status |-> 400]

\* POST /create, up to the end of its first database call
CreateResume(h) ==
  /\ inflight[h].pc \in {"idle", "done"}
  /\ Len(db.resumes) + PendingCreates < MaxResumes
  /\ \E userId \in UserIds, isDefault \in BOOLEAN, valid \in BOOLEAN :
       IF ~valid
         THEN /\ inflight' = [inflight EXCEPT ![h] = Rejected("create", userId, 0)]
              /\ UNCHANGED db
       ELSE /\ inflight' = [inflight EXCEPT ![h] = Started("create", userId, 0, isDefault, 201)]
            /\ db' = [db EXCEPT !.resumes = IF isDefault THEN updateMany(@, userId, 0)
                                            ELSE save(@, userId, FALSE)]
  /\ UNCHANGED <<analyzerVars, pureVars>>

\* PUT /:id, up to the end of its first database call
UpdateResume(h) ==
  /\ inflight[h].pc \in {"idle", "done"}
  /\ \E userId \in UserIds, id \in ResumeIds, isDefault \in BOOLEAN, valid \in BOOLEAN :
       IF ~valid
         THEN /\ inflight' = [inflight EXCEPT ![h] = Rejected("update", userId, id)]
              /\ UNCHANGED db
       ELSE /\ inflight' = [inflight EXCEPT ![h] = Started("update", userId, id, isDefault, 200)]
            /\ db' = [db EXCEPT !.resumes = IF isDefault THEN updateMany(@, userId, id)
                                            ELSE findOneAndUpdate(@, userId, id, FALSE)]
  /\ UNCHANGED <<analyzerVars, pureVars>>

\* POST /save, up to the end of its first database call; resumeId is 0 when
\* the body has none
SaveResume(h) ==
  /\ inflight[h].pc \in {"idle", "done"}
  /\ \E userId \in UserIds, resumeId \in {0} \cup ResumeIds, isDefault \in BOOLEAN,
        valid \in BOOLEAN :
       /\ resumeId = 0 => Len(db.resumes) + PendingCreates < MaxResumes
       /\ IF ~valid
            THEN /\ inflight' = [inflight EXCEPT ![h] = Rejected("save", userId, resumeId)]
                 /\ UNCHANGED db
          ELSE /\ inflight' = [inflight EXCEPT
                                 ![h] = Started("save", userId, resumeId, isDefault, 200)]
               /\ db' = [db EXCEPT
                           !.resumes =
                             IF isDefault THEN updateMany(@, userId, resumeId)
                             ELSE IF resumeId # 0 THEN findOneAndUpdate(@, userId, resumeId, FALSE)
                             ELSE save(@, userId, FALSE)]
  /\ UNCHANGED <<analyzerVars, pureVars>>

\* PATCH /:id/set-default, up to the end of its first database call
SetDefault(h) ==
  /\ inflight[h].pc \in {"idle", "done"}
  /\ \E userId \in UserIds, id \in ResumeIds :
       /\ inflight' = [inflight EXCEPT ![h] = Started("set-default", userId, id, TRUE, 200)]
       /\ db' = [db EXCEPT !.resumes = updateMany(@, userId, 0)]
  /\ UNCHANGED <<analyzerVars, pureVars>>

\* the second database call of a handler, the one that writes its own resume,
\* and the answer
WriteResume(h) ==
  /\ inflight[h].pc = "write"
  /\ LET rq == inflight[h]
     IN  /\ db' = [db EXCEPT !.resumes = IF rq.id = 0 THEN save(@, rq.userId, rq.isDefault)
                                         ELSE findOneAndUpdate(@, rq.userId, rq.id, rq.isDefault)]
         /\ inflight' = [inflight EXCEPT
                           ![h].pc = "done",
                           ![h].status = IF rq.id = 0
                                           THEN (IF rq.kind = "create" THEN 201 ELSE 200)
                                         ELSE IF Owns(db.resumes, rq.userId, rq.id) THEN 200
                                         ELSE 404]
  /\ UNCHANGED <<analyzerVars, pureVars>>

NextResume ==
  \E h \in Handlers :
    \/ CreateResume(h)
    \/ UpdateResume(h)
    \/ SaveResume(h)
    \/ SetDefault(h)
    \/ WriteResume(h)

SpecResume == InitResume /\ [][NextResume]_vars

\* the resumes of a user that are marked default
DefaultsOf(resumes, userId) ==
  {i \in DOMAIN resumes : resumes[i].userId = userId /\ resumes[i].isDefault}

\* C27: whatever create, update, save and set-default requests have run, and
\* however they interleaved, no user has two resumes marked default.
C27_OneDefaultPerUser ==
  \A userId \in UserIds : Cardinality(DefaultsOf(db.resumes, userId)) <= 1

\* C28: a step of a set-default request whose id names no resume of the
\* requesting user leaves the default marks of that user's resumes as they
\* were, and the request is answered 404.
C28_SetDefaultMissingIsNoOp ==
  [][\A h \in Handlers :
       (/\ inflight'[h] # inflight[h]
        /\ inflight'[h].kind = "set-default"
        /\ ~Owns(db.resumes, inflight'[h].userId, inflight'[h].id))
       => /\ DefaultsOf(db'.resumes, inflight'[h].userId)
               = DefaultsOf(db.resumes, inflight'[h].userId)
          /\ inflight'[h].pc = "done" => inflight'[h].status = 404]_vars

\* ------------------------------------------------------------------ interviews
\* number of interviews the collection may hold
MaxInterviews == 2

\* the ids a request may name: the interviews stored so far are
\* 1..Len(interviews)
InterviewIds == 1..MaxInterviews

\* the (scheduledDate, scheduledTime) pairs a request may name
Slots == {"mon-10:00", "tue-10:00"}

\* the values the status route accepts, in the order of its list
Statuses == <<"scheduled", "in-progress", "completed", "cancelled", "no-show">>

\* the statuses that occupy a slot
Active == {"scheduled", "in-progress"}

\* Interview.findOne({ userId, scheduledDate, scheduledTime,
\* status: { $in: ['scheduled', 'in-progress'] } }) finds a document
existingInterview(interviews, userId, slot) ==
  \E i \in DOMAIN interviews :
    /\ interviews[i].userId = userId
    /\ interviews[i].slot = slot
    /\ interviews[i].status \in Active

\* interviews a handler under way is still going to insert
PendingInterviews ==
  Cardinality({h \in Handlers : inflight[h].pc = "save" /\ inflight[h].kind = "schedule"})

InitInterview ==
  /\ AnalyzerInit
  /\ keyArgs = None
  /\ keyRet = None
  /\ exText = None
  /\ exReply = None
  /\ exRet = None
  /\ callArgs = None
  /\ callRet = None
  /\ db = [interviews |-> <<>>]
  /\ inflight = [h \in Handlers |-> IdleHandler]

\* a handler that has answered
Answered(status) == [pc |-> "done", status |-> status]

\* POST /schedule, up to the end of the conflict query; future tells whether
\* the date and time named lie after the clock's now
ScheduleInterview(h) ==
  /\ inflight[h].pc \in {"idle", "done"}
  /\ Len(db.interviews) + PendingInterviews < MaxInterviews
  /\ \E userId \in UserIds, slot \in Slots, future \in BOOLEAN :
       inflight' = [inflight EXCEPT
                      ![h] = IF future /\ ~existingInterview(db.interviews, userId, slot)
                               THEN [pc |-> "save", kind |-> "schedule", userId |-> userId,
                                     id |-> 0, slot |-> slot]
                             ELSE Answered(400)]
  /\ UNCHANGED <<db, analyzerVars, pureVars>>

\* PATCH /:id/status; i is 0 for a status that is not in the list
UpdateStatus(h) ==
  /\ inflight[h].pc \in {"idle", "done"}
  /\ \E userId \in UserIds, id \in InterviewIds, i \in 0..Len(Statuses) :
       LET found == id \in DOMAIN db.interviews /\ db.interviews[id].userId = userId
       IN  /\ inflight' = [inflight EXCEPT
                             ![h] = Answered(IF i = 0 THEN 400 ELSE IF found THEN 200 ELSE 404)]
           /\ db' = IF i # 0 /\ found
                      THEN [db EXCEPT !.interviews[id].status = Statuses[i]]
                    ELSE db
  /\ UNCHANGED <<analyzerVars, pureVars>>

\* PUT /:id, up to interview.save(); slot is Absent when the body names
\* neither date nor time, and future is the outcome of the date comparison
EditInterview(h) ==
  /\ inflight[h].pc \in {"idle", "done"}
  /\ \E userId \in UserIds, id \in InterviewIds, slot \in Slots \cup {Absent},
        future \in BOOLEAN :
       LET found == id \in DOMAIN db.interviews /\ db.interviews[id].userId = userId
       IN  inflight' = [inflight EXCEPT
                          ![h] = IF ~found THEN Answered(404)
                                 ELSE IF db.interviews[id].status # "scheduled" THEN Answered(400)
                                 ELSE IF slot # Absent /\ ~future THEN Answered(400)
                                 ELSE [pc |-> "save", kind |-> "edit", userId |-> userId,
                                       id |-> id, slot |-> slot]]
  /\ UNCHANGED <<db, analyzerVars, pureVars>>

\* interview.save() of the schedule route and of the edit route, and the answer
SaveInterview(h) ==
  /\ inflight[h].pc = "save"
  /\ LET rq == inflight[h]
     IN  /\ db' = [db EXCEPT
                     !.interviews =
                       IF rq.kind = "schedule"
                         THEN Append(@, [userId |-> rq.userId, slot |-> rq.slot,
                                         status |-> "scheduled"])
                       ELSE IF rq.slot # Absent THEN [@ EXCEPT ![rq.id].slot = rq.slot]
                       ELSE @]
         /\ inflight' = [inflight EXCEPT
                           ![h] = Answered(IF rq.kind = "schedule" THEN 201 ELSE 200)]
  /\ UNCHANGED <<analyzerVars, pureVars>>

NextInterview ==
  \E h \in Handlers :
    \/ ScheduleInterview(h)
    \/ UpdateStatus(h)
    \/ EditInterview(h)
    \/ SaveInterview(h)

SpecInterview == InitInterview /\ [][NextInterview]_vars

\* C29: whatever schedule, edit and status requests have run, and however they
\* interleaved, no user has two interviews with status scheduled or in-progress
\* at the same date and time.
C29_OneActiveInterviewPerSlot ==
  \A userId \in UserIds, slot \in Slots :
    Cardinality({i \in DOMAIN db.interviews :
                   /\ db.interviews[i].userId = userId
                   /\ db.interviews[i].slot = slot
                   /\ db.interviews[i].status \in Active}) <= 1

\* ------------------------------------------------------------------ streamed replies
\* number of lines the proxy may send on one response stream
MaxStreamLines == 3

\* The conversation histories a client may post: no message, one message whose
\* text is a string, is blank, is missing, or is a number.
Histories == {<<>>, <<"text">>, <<"blank">>, <<"missing">>, <<"number">>}

\* formatConversationHistory: the messages kept, or the TypeError of calling
\* trim on a value that is not a string
formatConversationHistory(conversationHistory) ==
  IF \E i \in DOMAIN conversationHistory : conversationHistory[i] = "number"
    THEN Thrown("msg.message.trim is not a function")
  ELSE Value(SelectSeq(conversationHistory, LAMBDA m : m = "text"))

\* The lines of the response stream, by what they hold: a delta with content,
\* a message with content, a delta without content, an error object, text
\* that is not JSON, the [DONE] mark, a line that does not start with data:.
StreamLines == {"delta", "message", "empty-delta", "error", "not-json", "[DONE]", "comment"}

\* what callChatStream yields for one line; the throw for json.error is
\* caught by the handler around JSON.parse, which yields the raw data
LineYield(line) ==
  CASE line \in {"delta", "message"} -> <<"content">>
    [] line = "error" -> <<"raw-error-json">>
    [] line = "not-json" -> <<"raw-text">>
    [] OTHER -> <<>>

\* what callChat resolves to: the text extracted from the response, or the
\* error message of the failed request ("" when it has none)
ChatResults ==
  {[success |-> TRUE, text |-> "reply"], [success |-> TRUE, text |-> ""],
   [success |-> FALSE, error |-> "Request failed"], [success |-> FALSE, error |-> ""]}

\* the chunk streamInterviewResponse yields for the result of callChat
FallbackChunk(response) ==
  IF response.success /\ response.text # ""
    THEN [from |-> "chat", text |-> response.text]
  ELSE IF ~response.success /\ response.error # ""
    THEN [from |-> "error", text |-> response.error]
  ELSE [from |-> "error", text |-> "AI proxy request failed"]

InitStream ==
  /\ AnalyzerInit
  /\ keyArgs = None
  /\ keyRet = None
  /\ exText = None
  /\ exReply = None
  /\ exRet = None
  /\ callArgs = None
  /\ callRet = None
  /\ db = None
  /\ \E history \in Histories :
       inflight = [pc |-> "prepare", history |-> history, lines |-> 0, yielded |-> <<>>,
                   streamFailed |-> FALSE, chatCalls |-> 0, thrown |-> FALSE]

\* the consumer's first next(): the prompt and the messages are built, before
\* the try block
Prepare ==
  /\ inflight.pc = "prepare"
  /\ inflight' = IF formatConversationHistory(inflight.history).ok
                   THEN [inflight EXCEPT !.pc = "open"]
                 ELSE [inflight EXCEPT !.pc = "done", !.thrown = TRUE]
  /\ UNCHANGED <<db, analyzerVars, pureVars>>

\* axios.post of callChatStream settles: the response stream opens, or the
\* request fails and callChatStream throws
OpenStream ==
  /\ inflight.pc = "open"
  /\ \E ok \in BOOLEAN :
       inflight' = IF ok THEN [inflight EXCEPT !.pc = "streaming"]
                   ELSE [inflight EXCEPT !.pc = "fallback", !.streamFailed = TRUE]
  /\ UNCHANGED <<db, analyzerVars, pureVars>>

\* one line of the response stream is read and what it yields is passed on to
\* the consumer
StreamLine ==
  /\ inflight.pc = "streaming"
  /\ inflight.lines < MaxStreamLines
  /\ \E line \in StreamLines :
       inflight' = [inflight EXCEPT
                      !.lines = @ + 1,
                      !.yielded = @ \o [i \in DOMAIN LineYield(line) |->
                                          [from |-> "stream", text |-> LineYield(line)[i]]]]
  /\ UNCHANGED <<db, analyzerVars, pureVars>>

\* the response stream ends: callChatStream returns and so does
\* streamInterviewResponse
StreamEnds ==
  /\ inflight.pc = "streaming"
  /\ inflight' = [inflight EXCEPT !.pc = "done"]
  /\ UNCHANGED <<db, analyzerVars, pureVars>>

\* the response stream breaks: callChatStream rethrows and
\* streamInterviewResponse goes on to the non-streaming call
StreamBreaks ==
  /\ inflight.pc = "streaming"
  /\ inflight' = [inflight EXCEPT !.pc = "fallback", !.streamFailed = TRUE]
  /\ UNCHANGED <<db, analyzerVars, pureVars>>

\* callChat settles and its text, or an Error message, is yielded
Fallback ==
  /\ inflight.pc = "fallback"
  /\ \E response \in ChatResults :
       inflight' = [inflight EXCEPT !.pc = "done",
                                    !.chatCalls = @ + 1,
                                    !.yielded = Append(@, FallbackChunk(response))]
  /\ UNCHANGED <<db, analyzerVars, pureVars>>

NextStream == Prepare \/ OpenStream \/ StreamLine \/ StreamEnds \/ StreamBreaks \/ Fallback

SpecStream == InitStream /\ [][NextStream]_vars

\* C30: a call of streamInterviewResponse that has ended did not throw, and
\* what it yielded is one reply: the chunks of the streaming call and nothing
\* else, or, when streaming failed, nothing but the text of the one
\* non-streaming call or one Error message; in particular a stream that broke
\* after some chunks is not followed by the non-streaming reply.
C30_ExactlyOneReply ==
  inflight.pc = "done" =>
    /\ ~inflight.thrown
    /\ \/ /\ ~inflight.streamFailed
          /\ inflight.chatCalls = 0
          /\ \A i \in DOMAIN inflight.yielded : inflight.yielded[i].from = "stream"
       \/ /\ inflight.streamFailed
          /\ inflight.chatCalls = 1
          /\ Len(inflight.yielded) = 1
          /\ inflight.yielded[1].from \in {"chat", "error"}

====
